---------------------------- MODULE Spec2Model ----------------------------
(***************************************************************************)
(* Model of the creative-agent format registry, the format query engine    *)
(* (filter_formats / get_format_by_id) and the manifest validator          *)
(* (validate_manifest_assets).                                             *)
(*                                                                         *)
(* Python values are modelled as follows:                                  *)
(*   - an optional value is a sequence: <<>> is None, <<v>> is the value v *)
(*   - a str that the code parses, lowers or searches is a sequence of     *)
(*     one-character strings; a str that is only compared is a TLA+ string *)
(*   - a list is a sequence                                                *)
(***************************************************************************)
EXTENDS Integers, Sequences, FiniteSets, TLC

(* Largest number of criteria a modelled filter_formats call supplies.     *)
MaxCriteria == 2

(* Largest number of entries in a modelled manifest's assets mapping.      *)
MaxAssets == 2

MaxInputs == 2

(* the number of workers that run calls side by side *)
MaxWorkers == 2

(* the number of calls the workers start in one run *)
MaxCalls == 3

None == <<>>

Some(v) == <<v>>

IsNone(o) == Len(o) = 0

Range(s) == {s[i] : i \in 1..Len(s)}

(* ----------------------------- str helpers ----------------------------- *)

UpperChars == <<"A", "B", "C", "D", "E", "F", "G", "H", "I", "J", "K", "L", "M",
                "N", "O", "P", "Q", "R", "S", "T", "U", "V", "W", "X", "Y", "Z">>

LowerChars == <<"a", "b", "c", "d", "e", "f", "g", "h", "i", "j", "k", "l", "m",
                "n", "o", "p", "q", "r", "s", "t", "u", "v", "w", "x", "y", "z">>

Digits == <<"0", "1", "2", "3", "4", "5", "6", "7", "8", "9">>

Whitespace == {" ", "\t", "\n", "\r"}

(* str.lower() on one character *)
LowerChar(c) ==
  IF \E i \in 1..26 : UpperChars[i] = c
  THEN LowerChars[CHOOSE i \in 1..26 : UpperChars[i] = c]
  ELSE c

(* str.lower() *)
lower(s) == [i \in 1..Len(s) |-> LowerChar(s[i])]

(* s.startswith(p) *)
startswith(s, p) == Len(s) >= Len(p) /\ SubSeq(s, 1, Len(p)) = p

(* p in s, for two strs *)
contains(s, p) ==
  \E i \in 1..(Len(s) - Len(p) + 1) : SubSeq(s, i, i + Len(p) - 1) = p

(* position of the first occurrence of character c in s, 0 when absent *)
find(s, c) ==
  IF \E i \in 1..Len(s) : s[i] = c
  THEN CHOOSE i \in 1..Len(s) : s[i] = c /\ \A j \in 1..(i - 1) : s[j] # c
  ELSE 0

(* s.split(c): the list of the pieces of s between the occurrences of c *)
RECURSIVE split(_, _)
split(s, c) ==
  IF find(s, c) = 0 THEN <<s>>
  ELSE <<SubSeq(s, 1, find(s, c) - 1)>> \o split(SubSeq(s, find(s, c) + 1, Len(s)), c)

(* s.strip() *)
RECURSIVE lstrip(_)
lstrip(s) ==
  IF Len(s) > 0 /\ s[1] \in Whitespace THEN lstrip(Tail(s)) ELSE s

RECURSIVE rstrip(_)
rstrip(s) ==
  IF Len(s) > 0 /\ s[Len(s)] \in Whitespace THEN rstrip(SubSeq(s, 1, Len(s) - 1)) ELSE s

strip(s) == rstrip(lstrip(s))

DigitValue(c) == (CHOOSE i \in 1..10 : Digits[i] = c) - 1

IsDigit(c) == \E i \in 1..10 : Digits[i] = c

RECURSIVE DigitsValue(_, _)
DigitsValue(s, acc) ==
  IF Len(s) = 0 THEN acc
  ELSE IF s[1] = "_" THEN DigitsValue(Tail(s), acc)
  ELSE DigitsValue(Tail(s), 10 * acc + DigitValue(s[1]))

(* the digits of int(): decimal digits, single underscores between digits *)
IsIntBody(s) ==
  /\ Len(s) > 0
  /\ \A i \in 1..Len(s) : IsDigit(s[i]) \/ s[i] = "_"
  /\ IsDigit(s[1]) /\ IsDigit(s[Len(s)])
  /\ \A i \in 1..(Len(s) - 1) : ~(s[i] = "_" /\ s[i + 1] = "_")

Unsigned(s) == IF Len(s) > 0 /\ s[1] \in {"+", "-"} THEN Tail(s) ELSE s

(* int(s): <<>> when int() raises ValueError, else <<value>> *)
int(s) ==
  LET t == strip(s)
      b == Unsigned(t)
  IN IF ~IsIntBody(b) THEN None
     ELSE IF Len(t) > 0 /\ t[1] = "-" THEN Some(0 - DigitsValue(b, 0))
     ELSE Some(DigitsValue(b, 0))

(* str(n) for an int n >= 0 *)
RECURSIVE str(_)
str(n) ==
  IF n < 10 THEN <<Digits[n + 1]>> ELSE str(n \div 10) \o <<Digits[(n % 10) + 1]>>

(* ------------------------------ registry ------------------------------- *)

F_display_300x250_generative ==
  [format_id |-> "display_300x250_generative",
   name |-> <<"M", "e", "d", "i", "u", "m", " ", "R", "e", "c", "t", "a", "n", "g", "l", "e", " ", "-", " ", "A", "I", " ", "G", "e", "n", "e", "r", "a", "t", "e", "d">>,
   type |-> "display",
   requirements |-> <<[size |-> 1, dimensions |-> <<<<"3", "0", "0", "x", "2", "5", "0">>>>]>>,
   output_format_ids |-> <<<<"display_300x250_image">>>>,
   assets_required |-> <<
     [asset_id |-> "brand_context", asset_type |-> "brand_manifest", required |-> TRUE],
     [asset_id |-> "generation_prompt", asset_type |-> "text", required |-> TRUE]>>]

F_display_728x90_generative ==
  [format_id |-> "display_728x90_generative",
   name |-> <<"L", "e", "a", "d", "e", "r", "b", "o", "a", "r", "d", " ", "-", " ", "A", "I", " ", "G", "e", "n", "e", "r", "a", "t", "e", "d">>,
   type |-> "display",
   requirements |-> <<[size |-> 1, dimensions |-> <<<<"7", "2", "8", "x", "9", "0">>>>]>>,
   output_format_ids |-> <<<<"display_728x90_image">>>>,
   assets_required |-> <<
     [asset_id |-> "brand_context", asset_type |-> "brand_manifest", required |-> TRUE],
     [asset_id |-> "generation_prompt", asset_type |-> "text", required |-> TRUE]>>]

F_display_320x50_generative ==
  [format_id |-> "display_320x50_generative",
   name |-> <<"M", "o", "b", "i", "l", "e", " ", "B", "a", "n", "n", "e", "r", " ", "-", " ", "A", "I", " ", "G", "e", "n", "e", "r", "a", "t", "e", "d">>,
   type |-> "display",
   requirements |-> <<[size |-> 1, dimensions |-> <<<<"3", "2", "0", "x", "5", "0">>>>]>>,
   output_format_ids |-> <<<<"display_320x50_image">>>>,
   assets_required |-> <<
     [asset_id |-> "brand_context", asset_type |-> "brand_manifest", required |-> TRUE],
     [asset_id |-> "generation_prompt", asset_type |-> "text", required |-> TRUE]>>]

F_display_160x600_generative ==
  [format_id |-> "display_160x600_generative",
   name |-> <<"W", "i", "d", "e", " ", "S", "k", "y", "s", "c", "r", "a", "p", "e", "r", " ", "-", " ", "A", "I", " ", "G", "e", "n", "e", "r", "a", "t", "e", "d">>,
   type |-> "display",
   requirements |-> <<[size |-> 1, dimensions |-> <<<<"1", "6", "0", "x", "6", "0", "0">>>>]>>,
   output_format_ids |-> <<<<"display_160x600_image">>>>,
   assets_required |-> <<
     [asset_id |-> "brand_context", asset_type |-> "brand_manifest", required |-> TRUE],
     [asset_id |-> "generation_prompt", asset_type |-> "text", required |-> TRUE]>>]

F_display_336x280_generative ==
  [format_id |-> "display_336x280_generative",
   name |-> <<"L", "a", "r", "g", "e", " ", "R", "e", "c", "t", "a", "n", "g", "l", "e", " ", "-", " ", "A", "I", " ", "G", "e", "n", "e", "r", "a", "t", "e", "d">>,
   type |-> "display",
   requirements |-> <<[size |-> 1, dimensions |-> <<<<"3", "3", "6", "x", "2", "8", "0">>>>]>>,
   output_format_ids |-> <<<<"display_336x280_image">>>>,
   assets_required |-> <<
     [asset_id |-> "brand_context", asset_type |-> "brand_manifest", required |-> TRUE],
     [asset_id |-> "generation_prompt", asset_type |-> "text", required |-> TRUE]>>]

F_display_300x600_generative ==
  [format_id |-> "display_300x600_generative",
   name |-> <<"H", "a", "l", "f", " ", "P", "a", "g", "e", " ", "-", " ", "A", "I", " ", "G", "e", "n", "e", "r", "a", "t", "e", "d">>,
   type |-> "display",
   requirements |-> <<[size |-> 1, dimensions |-> <<<<"3", "0", "0", "x", "6", "0", "0">>>>]>>,
   output_format_ids |-> <<<<"display_300x600_image">>>>,
   assets_required |-> <<
     [asset_id |-> "brand_context", asset_type |-> "brand_manifest", required |-> TRUE],
     [asset_id |-> "generation_prompt", asset_type |-> "text", required |-> TRUE]>>]

F_display_970x250_generative ==
  [format_id |-> "display_970x250_generative",
   name |-> <<"B", "i", "l", "l", "b", "o", "a", "r", "d", " ", "-", " ", "A", "I", " ", "G", "e", "n", "e", "r", "a", "t", "e", "d">>,
   type |-> "display",
   requirements |-> <<[size |-> 1, dimensions |-> <<<<"9", "7", "0", "x", "2", "5", "0">>>>]>>,
   output_format_ids |-> <<<<"display_970x250_image">>>>,
   assets_required |-> <<
     [asset_id |-> "brand_context", asset_type |-> "brand_manifest", required |-> TRUE],
     [asset_id |-> "generation_prompt", asset_type |-> "text", required |-> TRUE]>>]

GENERATIVE_FORMATS ==
  <<F_display_300x250_generative,
    F_display_728x90_generative,
    F_display_320x50_generative,
    F_display_160x600_generative,
    F_display_336x280_generative,
    F_display_300x600_generative,
    F_display_970x250_generative>>

F_video_standard_30s ==
  [format_id |-> "video_standard_30s",
   name |-> <<"S", "t", "a", "n", "d", "a", "r", "d", " ", "V", "i", "d", "e", "o", " ", "-", " ", "3", "0", " ", "s", "e", "c", "o", "n", "d", "s">>,
   type |-> "video",
   requirements |-> <<[size |-> 4, dimensions |-> <<>>]>>,
   output_format_ids |-> <<>>,
   assets_required |-> <<
     [asset_id |-> "video_file", asset_type |-> "video", required |-> TRUE]>>]

F_video_standard_15s ==
  [format_id |-> "video_standard_15s",
   name |-> <<"S", "t", "a", "n", "d", "a", "r", "d", " ", "V", "i", "d", "e", "o", " ", "-", " ", "1", "5", " ", "s", "e", "c", "o", "n", "d", "s">>,
   type |-> "video",
   requirements |-> <<[size |-> 4, dimensions |-> <<>>]>>,
   output_format_ids |-> <<>>,
   assets_required |-> <<
     [asset_id |-> "video_file", asset_type |-> "video", required |-> TRUE]>>]

F_video_vast_30s ==
  [format_id |-> "video_vast_30s",
   name |-> <<"V", "A", "S", "T", " ", "V", "i", "d", "e", "o", " ", "-", " ", "3", "0", " ", "s", "e", "c", "o", "n", "d", "s">>,
   type |-> "video",
   requirements |-> <<[size |-> 1, dimensions |-> <<>>]>>,
   output_format_ids |-> <<>>,
   assets_required |-> <<
     [asset_id |-> "vast_tag", asset_type |-> "text", required |-> TRUE]>>]

F_video_1920x1080 ==
  [format_id |-> "video_1920x1080",
   name |-> <<"F", "u", "l", "l", " ", "H", "D", " ", "V", "i", "d", "e", "o", " ", "-", " ", "1", "9", "2", "0", "x", "1", "0", "8", "0">>,
   type |-> "video",
   requirements |-> <<[size |-> 4, dimensions |-> <<<<"1", "9", "2", "0", "x", "1", "0", "8", "0">>>>]>>,
   output_format_ids |-> <<>>,
   assets_required |-> <<
     [asset_id |-> "video_file", asset_type |-> "video", required |-> TRUE]>>]

F_video_1280x720 ==
  [format_id |-> "video_1280x720",
   name |-> <<"H", "D", " ", "V", "i", "d", "e", "o", " ", "-", " ", "1", "2", "8", "0", "x", "7", "2", "0">>,
   type |-> "video",
   requirements |-> <<[size |-> 4, dimensions |-> <<<<"1", "2", "8", "0", "x", "7", "2", "0">>>>]>>,
   output_format_ids |-> <<>>,
   assets_required |-> <<
     [asset_id |-> "video_file", asset_type |-> "video", required |-> TRUE]>>]

F_video_1080x1920 ==
  [format_id |-> "video_1080x1920",
   name |-> <<"V", "e", "r", "t", "i", "c", "a", "l", " ", "V", "i", "d", "e", "o", " ", "-", " ", "1", "0", "8", "0", "x", "1", "9", "2", "0">>,
   type |-> "video",
   requirements |-> <<[size |-> 4, dimensions |-> <<<<"1", "0", "8", "0", "x", "1", "9", "2", "0">>>>]>>,
   output_format_ids |-> <<>>,
   assets_required |-> <<
     [asset_id |-> "video_file", asset_type |-> "video", required |-> TRUE]>>]

F_video_1080x1080 ==
  [format_id |-> "video_1080x1080",
   name |-> <<"S", "q", "u", "a", "r", "e", " ", "V", "i", "d", "e", "o", " ", "-", " ", "1", "0", "8", "0", "x", "1", "0", "8", "0">>,
   type |-> "video",
   requirements |-> <<[size |-> 4, dimensions |-> <<<<"1", "0", "8", "0", "x", "1", "0", "8", "0">>>>]>>,
   output_format_ids |-> <<>>,
   assets_required |-> <<
     [asset_id |-> "video_file", asset_type |-> "video", required |-> TRUE]>>]

F_video_ctv_preroll_30s ==
  [format_id |-> "video_ctv_preroll_30s",
   name |-> <<"C", "T", "V", " ", "P", "r", "e", "-", "R", "o", "l", "l", " ", "-", " ", "3", "0", " ", "s", "e", "c", "o", "n", "d", "s">>,
   type |-> "video",
   requirements |-> <<[size |-> 4, dimensions |-> <<>>]>>,
   output_format_ids |-> <<>>,
   assets_required |-> <<
     [asset_id |-> "video_file", asset_type |-> "video", required |-> TRUE]>>]

F_video_ctv_midroll_30s ==
  [format_id |-> "video_ctv_midroll_30s",
   name |-> <<"C", "T", "V", " ", "M", "i", "d", "-", "R", "o", "l", "l", " ", "-", " ", "3", "0", " ", "s", "e", "c", "o", "n", "d", "s">>,
   type |-> "video",
   requirements |-> <<[size |-> 4, dimensions |-> <<>>]>>,
   output_format_ids |-> <<>>,
   assets_required |-> <<
     [asset_id |-> "video_file", asset_type |-> "video", required |-> TRUE]>>]

VIDEO_FORMATS ==
  <<F_video_standard_30s,
    F_video_standard_15s,
    F_video_vast_30s,
    F_video_1920x1080,
    F_video_1280x720,
    F_video_1080x1920,
    F_video_1080x1080,
    F_video_ctv_preroll_30s,
    F_video_ctv_midroll_30s>>

F_display_300x250_image ==
  [format_id |-> "display_300x250_image",
   name |-> <<"M", "e", "d", "i", "u", "m", " ", "R", "e", "c", "t", "a", "n", "g", "l", "e", " ", "-", " ", "I", "m", "a", "g", "e">>,
   type |-> "display",
   requirements |-> <<[size |-> 1, dimensions |-> <<<<"3", "0", "0", "x", "2", "5", "0">>>>]>>,
   output_format_ids |-> <<>>,
   assets_required |-> <<
     [asset_id |-> "banner_image", asset_type |-> "image", required |-> TRUE],
     [asset_id |-> "click_url", asset_type |-> "url", required |-> TRUE]>>]

F_display_728x90_image ==
  [format_id |-> "display_728x90_image",
   name |-> <<"L", "e", "a", "d", "e", "r", "b", "o", "a", "r", "d", " ", "-", " ", "I", "m", "a", "g", "e">>,
   type |-> "display",
   requirements |-> <<[size |-> 1, dimensions |-> <<<<"7", "2", "8", "x", "9", "0">>>>]>>,
   output_format_ids |-> <<>>,
   assets_required |-> <<
     [asset_id |-> "banner_image", asset_type |-> "image", required |-> TRUE],
     [asset_id |-> "click_url", asset_type |-> "url", required |-> TRUE]>>]

F_display_320x50_image ==
  [format_id |-> "display_320x50_image",
   name |-> <<"M", "o", "b", "i", "l", "e", " ", "B", "a", "n", "n", "e", "r", " ", "-", " ", "I", "m", "a", "g", "e">>,
   type |-> "display",
   requirements |-> <<[size |-> 1, dimensions |-> <<<<"3", "2", "0", "x", "5", "0">>>>]>>,
   output_format_ids |-> <<>>,
   assets_required |-> <<
     [asset_id |-> "banner_image", asset_type |-> "image", required |-> TRUE],
     [asset_id |-> "click_url", asset_type |-> "url", required |-> TRUE]>>]

F_display_160x600_image ==
  [format_id |-> "display_160x600_image",
   name |-> <<"W", "i", "d", "e", " ", "S", "k", "y", "s", "c", "r", "a", "p", "e", "r", " ", "-", " ", "I", "m", "a", "g", "e">>,
   type |-> "display",
   requirements |-> <<[size |-> 1, dimensions |-> <<<<"1", "6", "0", "x", "6", "0", "0">>>>]>>,
   output_format_ids |-> <<>>,
   assets_required |-> <<
     [asset_id |-> "banner_image", asset_type |-> "image", required |-> TRUE],
     [asset_id |-> "click_url", asset_type |-> "url", required |-> TRUE]>>]

F_display_336x280_image ==
  [format_id |-> "display_336x280_image",
   name |-> <<"L", "a", "r", "g", "e", " ", "R", "e", "c", "t", "a", "n", "g", "l", "e", " ", "-", " ", "I", "m", "a", "g", "e">>,
   type |-> "display",
   requirements |-> <<[size |-> 1, dimensions |-> <<<<"3", "3", "6", "x", "2", "8", "0">>>>]>>,
   output_format_ids |-> <<>>,
   assets_required |-> <<
     [asset_id |-> "banner_image", asset_type |-> "image", required |-> TRUE],
     [asset_id |-> "click_url", asset_type |-> "url", required |-> TRUE]>>]

F_display_300x600_image ==
  [format_id |-> "display_300x600_image",
   name |-> <<"H", "a", "l", "f", " ", "P", "a", "g", "e", " ", "-", " ", "I", "m", "a", "g", "e">>,
   type |-> "display",
   requirements |-> <<[size |-> 1, dimensions |-> <<<<"3", "0", "0", "x", "6", "0", "0">>>>]>>,
   output_format_ids |-> <<>>,
   assets_required |-> <<
     [asset_id |-> "banner_image", asset_type |-> "image", required |-> TRUE],
     [asset_id |-> "click_url", asset_type |-> "url", required |-> TRUE]>>]

F_display_970x250_image ==
  [format_id |-> "display_970x250_image",
   name |-> <<"B", "i", "l", "l", "b", "o", "a", "r", "d", " ", "-", " ", "I", "m", "a", "g", "e">>,
   type |-> "display",
   requirements |-> <<[size |-> 1, dimensions |-> <<<<"9", "7", "0", "x", "2", "5", "0">>>>]>>,
   output_format_ids |-> <<>>,
   assets_required |-> <<
     [asset_id |-> "banner_image", asset_type |-> "image", required |-> TRUE],
     [asset_id |-> "click_url", asset_type |-> "url", required |-> TRUE]>>]

(* the display image group without its 300x250 entry *)
DISPLAY_IMAGE_FORMATS_without_300x250 ==
  <<F_display_728x90_image,
    F_display_320x50_image,
    F_display_160x600_image,
    F_display_336x280_image,
    F_display_300x600_image,
    F_display_970x250_image>>

DISPLAY_IMAGE_FORMATS ==
  <<F_display_300x250_image,
    F_display_728x90_image,
    F_display_320x50_image,
    F_display_160x600_image,
    F_display_336x280_image,
    F_display_300x600_image,
    F_display_970x250_image>>

F_display_300x250_html ==
  [format_id |-> "display_300x250_html",
   name |-> <<"M", "e", "d", "i", "u", "m", " ", "R", "e", "c", "t", "a", "n", "g", "l", "e", " ", "-", " ", "H", "T", "M", "L", "5">>,
   type |-> "display",
   requirements |-> <<[size |-> 1, dimensions |-> <<<<"3", "0", "0", "x", "2", "5", "0">>>>]>>,
   output_format_ids |-> <<>>,
   assets_required |-> <<
     [asset_id |-> "html_creative", asset_type |-> "html", required |-> TRUE]>>]

F_display_728x90_html ==
  [format_id |-> "display_728x90_html",
   name |-> <<"L", "e", "a", "d", "e", "r", "b", "o", "a", "r", "d", " ", "-", " ", "H", "T", "M", "L", "5">>,
   type |-> "display",
   requirements |-> <<[size |-> 1, dimensions |-> <<<<"7", "2", "8", "x", "9", "0">>>>]>>,
   output_format_ids |-> <<>>,
   assets_required |-> <<
     [asset_id |-> "html_creative", asset_type |-> "html", required |-> TRUE]>>]

F_display_160x600_html ==
  [format_id |-> "display_160x600_html",
   name |-> <<"W", "i", "d", "e", " ", "S", "k", "y", "s", "c", "r", "a", "p", "e", "r", " ", "-", " ", "H", "T", "M", "L", "5">>,
   type |-> "display",
   requirements |-> <<[size |-> 1, dimensions |-> <<<<"1", "6", "0", "x", "6", "0", "0">>>>]>>,
   output_format_ids |-> <<>>,
   assets_required |-> <<
     [asset_id |-> "html_creative", asset_type |-> "html", required |-> TRUE]>>]

F_display_336x280_html ==
  [format_id |-> "display_336x280_html",
   name |-> <<"L", "a", "r", "g", "e", " ", "R", "e", "c", "t", "a", "n", "g", "l", "e", " ", "-", " ", "H", "T", "M", "L", "5">>,
   type |-> "display",
   requirements |-> <<[size |-> 1, dimensions |-> <<<<"3", "3", "6", "x", "2", "8", "0">>>>]>>,
   output_format_ids |-> <<>>,
   assets_required |-> <<
     [asset_id |-> "html_creative", asset_type |-> "html", required |-> TRUE]>>]

F_display_300x600_html ==
  [format_id |-> "display_300x600_html",
   name |-> <<"H", "a", "l", "f", " ", "P", "a", "g", "e", " ", "-", " ", "H", "T", "M", "L", "5">>,
   type |-> "display",
   requirements |-> <<[size |-> 1, dimensions |-> <<<<"3", "0", "0", "x", "6", "0", "0">>>>]>>,
   output_format_ids |-> <<>>,
   assets_required |-> <<
     [asset_id |-> "html_creative", asset_type |-> "html", required |-> TRUE]>>]

F_display_970x250_html ==
  [format_id |-> "display_970x250_html",
   name |-> <<"B", "i", "l", "l", "b", "o", "a", "r", "d", " ", "-", " ", "H", "T", "M", "L", "5">>,
   type |-> "display",
   requirements |-> <<[size |-> 1, dimensions |-> <<<<"9", "7", "0", "x", "2", "5", "0">>>>]>>,
   output_format_ids |-> <<>>,
   assets_required |-> <<
     [asset_id |-> "html_creative", asset_type |-> "html", required |-> TRUE]>>]

DISPLAY_HTML_FORMATS ==
  <<F_display_300x250_html,
    F_display_728x90_html,
    F_display_160x600_html,
    F_display_336x280_html,
    F_display_300x600_html,
    F_display_970x250_html>>

F_native_standard ==
  [format_id |-> "native_standard",
   name |-> <<"I", "A", "B", " ", "N", "a", "t", "i", "v", "e", " ", "S", "t", "a", "n", "d", "a", "r", "d">>,
   type |-> "native",
   requirements |-> <<>>,
   output_format_ids |-> <<>>,
   assets_required |-> <<
     [asset_id |-> "title", asset_type |-> "text", required |-> TRUE],
     [asset_id |-> "description", asset_type |-> "text", required |-> TRUE],
     [asset_id |-> "main_image", asset_type |-> "image", required |-> TRUE],
     [asset_id |-> "icon", asset_type |-> "image", required |-> FALSE],
     [asset_id |-> "cta_text", asset_type |-> "text", required |-> TRUE],
     [asset_id |-> "sponsored_by", asset_type |-> "text", required |-> TRUE]>>]

F_native_content ==
  [format_id |-> "native_content",
   name |-> <<"N", "a", "t", "i", "v", "e", " ", "C", "o", "n", "t", "e", "n", "t", " ", "P", "l", "a", "c", "e", "m", "e", "n", "t">>,
   type |-> "native",
   requirements |-> <<>>,
   output_format_ids |-> <<>>,
   assets_required |-> <<
     [asset_id |-> "headline", asset_type |-> "text", required |-> TRUE],
     [asset_id |-> "body", asset_type |-> "text", required |-> TRUE],
     [asset_id |-> "thumbnail", asset_type |-> "image", required |-> TRUE],
     [asset_id |-> "author", asset_type |-> "text", required |-> FALSE],
     [asset_id |-> "click_url", asset_type |-> "url", required |-> TRUE],
     [asset_id |-> "disclosure", asset_type |-> "text", required |-> TRUE]>>]

NATIVE_FORMATS ==
  <<F_native_standard,
    F_native_content>>

F_audio_standard_15s ==
  [format_id |-> "audio_standard_15s",
   name |-> <<"S", "t", "a", "n", "d", "a", "r", "d", " ", "A", "u", "d", "i", "o", " ", "-", " ", "1", "5", " ", "s", "e", "c", "o", "n", "d", "s">>,
   type |-> "audio",
   requirements |-> <<[size |-> 3, dimensions |-> <<>>]>>,
   output_format_ids |-> <<>>,
   assets_required |-> <<
     [asset_id |-> "audio_file", asset_type |-> "audio", required |-> TRUE]>>]

F_audio_standard_30s ==
  [format_id |-> "audio_standard_30s",
   name |-> <<"S", "t", "a", "n", "d", "a", "r", "d", " ", "A", "u", "d", "i", "o", " ", "-", " ", "3", "0", " ", "s", "e", "c", "o", "n", "d", "s">>,
   type |-> "audio",
   requirements |-> <<[size |-> 3, dimensions |-> <<>>]>>,
   output_format_ids |-> <<>>,
   assets_required |-> <<
     [asset_id |-> "audio_file", asset_type |-> "audio", required |-> TRUE]>>]

F_audio_standard_60s ==
  [format_id |-> "audio_standard_60s",
   name |-> <<"S", "t", "a", "n", "d", "a", "r", "d", " ", "A", "u", "d", "i", "o", " ", "-", " ", "6", "0", " ", "s", "e", "c", "o", "n", "d", "s">>,
   type |-> "audio",
   requirements |-> <<[size |-> 3, dimensions |-> <<>>]>>,
   output_format_ids |-> <<>>,
   assets_required |-> <<
     [asset_id |-> "audio_file", asset_type |-> "audio", required |-> TRUE]>>]

AUDIO_FORMATS ==
  <<F_audio_standard_15s,
    F_audio_standard_30s,
    F_audio_standard_60s>>

F_dooh_billboard_1920x1080 ==
  [format_id |-> "dooh_billboard_1920x1080",
   name |-> <<"D", "i", "g", "i", "t", "a", "l", " ", "B", "i", "l", "l", "b", "o", "a", "r", "d", " ", "-", " ", "1", "9", "2", "0", "x", "1", "0", "8", "0">>,
   type |-> "dooh",
   requirements |-> <<[size |-> 3, dimensions |-> <<<<"1", "9", "2", "0", "x", "1", "0", "8", "0">>>>]>>,
   output_format_ids |-> <<>>,
   assets_required |-> <<
     [asset_id |-> "billboard_image", asset_type |-> "image", required |-> TRUE]>>]

F_dooh_billboard_landscape ==
  [format_id |-> "dooh_billboard_landscape",
   name |-> <<"D", "i", "g", "i", "t", "a", "l", " ", "B", "i", "l", "l", "b", "o", "a", "r", "d", " ", "-", " ", "L", "a", "n", "d", "s", "c", "a", "p", "e">>,
   type |-> "dooh",
   requirements |-> <<[size |-> 3, dimensions |-> <<>>]>>,
   output_format_ids |-> <<>>,
   assets_required |-> <<
     [asset_id |-> "billboard_image", asset_type |-> "image", required |-> TRUE]>>]

F_dooh_billboard_portrait ==
  [format_id |-> "dooh_billboard_portrait",
   name |-> <<"D", "i", "g", "i", "t", "a", "l", " ", "B", "i", "l", "l", "b", "o", "a", "r", "d", " ", "-", " ", "P", "o", "r", "t", "r", "a", "i", "t">>,
   type |-> "dooh",
   requirements |-> <<[size |-> 3, dimensions |-> <<>>]>>,
   output_format_ids |-> <<>>,
   assets_required |-> <<
     [asset_id |-> "billboard_image", asset_type |-> "image", required |-> TRUE]>>]

F_dooh_transit_screen ==
  [format_id |-> "dooh_transit_screen",
   name |-> <<"T", "r", "a", "n", "s", "i", "t", " ", "S", "c", "r", "e", "e", "n">>,
   type |-> "dooh",
   requirements |-> <<[size |-> 3, dimensions |-> <<<<"1", "9", "2", "0", "x", "1", "0", "8", "0">>>>]>>,
   output_format_ids |-> <<>>,
   assets_required |-> <<
     [asset_id |-> "screen_image", asset_type |-> "image", required |-> TRUE]>>]

DOOH_FORMATS ==
  <<F_dooh_billboard_1920x1080,
    F_dooh_billboard_landscape,
    F_dooh_billboard_portrait,
    F_dooh_transit_screen>>
(* Combine all formats *)
STANDARD_FORMATS ==
  GENERATIVE_FORMATS \o VIDEO_FORMATS \o DISPLAY_IMAGE_FORMATS \o DISPLAY_HTML_FORMATS
    \o NATIVE_FORMATS \o AUDIO_FORMATS \o DOOH_FORMATS

(* --------------------------- get_format_by_id -------------------------- *)

(* first registry index at or after i whose format_id equals format_id, 0 if none *)
RECURSIVE scan_formats(_, _)
scan_formats(i, format_id) ==
  IF i > Len(STANDARD_FORMATS) THEN 0
  ELSE IF STANDARD_FORMATS[i].format_id = format_id THEN i
  ELSE scan_formats(i + 1, format_id)

(* a lookup whose loop starts at the second registry entry *)
get_format_by_id_skip_first(format_id) ==
  LET i == scan_formats(2, format_id)
  IN IF i = 0 THEN None ELSE Some(STANDARD_FORMATS[i])

get_format_by_id(format_id) ==
  LET i == scan_formats(1, format_id)
  IN IF i = 0 THEN None ELSE Some(STANDARD_FORMATS[i])

(* api_server.get_format: 404 when the lookup is falsy, else the dumped format *)
get_format(format_id) ==
  LET fmt == get_format_by_id(format_id)
  IN IF IsNone(fmt) THEN [status |-> 404, body |-> None]
     ELSE [status |-> 200, body |-> fmt]

(* ----------------------------- filter_formats -------------------------- *)

(* fmt.requirements and "dimensions" in fmt.requirements *)
has_dimensions_key(fmt) ==
  /\ ~IsNone(fmt.requirements)
  /\ fmt.requirements[1].size > 0
  /\ ~IsNone(fmt.requirements[1].dimensions)

(* fmt.requirements.get("dimensions") *)
requirements_dimensions(fmt) == fmt.requirements[1].dimensions[1]

(* get_dimensions: <<>> for (None, None), else <<width, height>> *)
get_dimensions(fmt) ==
  IF ~has_dimensions_key(fmt) THEN None
  ELSE LET dims == requirements_dimensions(fmt)
           parts == split(dims, "x")
       IN IF find(dims, "x") = 0 \/ Len(parts) # 2 THEN None
          ELSE IF IsNone(int(parts[1])) \/ IsNone(int(parts[2])) THEN None
          ELSE <<int(parts[1])[1], int(parts[2])[1]>>

(* if format_ids: results = [fmt for fmt in results if fmt.format_id in format_ids] *)
filter_format_ids(results, format_ids) ==
  IF IsNone(format_ids) \/ Len(format_ids[1]) = 0 THEN results
  ELSE SelectSeq(results, LAMBDA fmt : fmt.format_id \in Range(format_ids[1]))

(* a type pass that compares the enum member itself with the str, never equal *)
filter_type_enum_vs_str(results, type) ==
  IF IsNone(type) \/ type[1] = "" THEN results
  ELSE SelectSeq(results, LAMBDA fmt : FALSE)

(* if type: results = [fmt for fmt in results if fmt.type.value == type] *)
filter_type(results, type) ==
  IF IsNone(type) \/ type[1] = "" THEN results
  ELSE SelectSeq(results, LAMBDA fmt : fmt.type = type[1])

(* an exact-dimensions pass that compares the width part only *)
filter_dimensions_width_only(results, dimensions) ==
  IF IsNone(dimensions) \/ Len(dimensions[1]) = 0 THEN results
  ELSE SelectSeq(results, LAMBDA fmt :
         /\ has_dimensions_key(fmt)
         /\ split(requirements_dimensions(fmt), "x")[1] = split(dimensions[1], "x")[1])

(* if dimensions: keep the formats whose requirements["dimensions"] is that string *)
filter_dimensions(results, dimensions) ==
  IF IsNone(dimensions) \/ Len(dimensions[1]) = 0 THEN results
  ELSE SelectSeq(results, LAMBDA fmt :
         /\ ~IsNone(fmt.requirements) /\ fmt.requirements[1].size > 0
         /\ ~IsNone(fmt.requirements[1].dimensions)
         /\ requirements_dimensions(fmt) = dimensions[1])

(* truth value of an optional int: None and 0 are falsy *)
truthy_int(o) == ~IsNone(o) /\ o[1] # 0

(* the body of the dimension-bound loop for one format *)
within_bounds(fmt, max_width, max_height, min_width, min_height) ==
  LET d == get_dimensions(fmt)
  IN /\ ~IsNone(d)
     /\ ~(~IsNone(max_width) /\ d[1] > max_width[1])
     /\ ~(~IsNone(max_height) /\ d[2] > max_height[1])
     /\ ~(~IsNone(min_width) /\ d[1] < min_width[1])
     /\ ~(~IsNone(min_height) /\ d[2] < min_height[1])

(* a dimension-bound pass without its guard: it runs on every call *)
filter_bounds_unguarded(results, max_width, max_height, min_width, min_height) ==
  SelectSeq(results, LAMBDA fmt :
    within_bounds(fmt, max_width, max_height, min_width, min_height))

(* if any([max_width, max_height, min_width, min_height]): ... *)
filter_bounds(results, max_width, max_height, min_width, min_height) ==
  IF ~(truthy_int(max_width) \/ truthy_int(max_height)
         \/ truthy_int(min_width) \/ truthy_int(min_height))
  THEN results
  ELSE SelectSeq(results, LAMBDA fmt :
         within_bounds(fmt, max_width, max_height, min_width, min_height))

(* fmt.requirements and "dimensions" in fmt.requirements and fmt.requirements["dimensions"] *)
has_fixed_dimensions(fmt) ==
  has_dimensions_key(fmt) /\ Len(requirements_dimensions(fmt)) > 0

(* a responsive pass guarded by `if is_responsive:` instead of `is not None` *)
filter_responsive_truthy(results, is_responsive) ==
  IF IsNone(is_responsive) \/ ~is_responsive[1] THEN results
  ELSE SelectSeq(results, LAMBDA fmt : ~has_fixed_dimensions(fmt))

(* if is_responsive is not None: ... *)
filter_responsive(results, is_responsive) ==
  IF IsNone(is_responsive) THEN results
  ELSE IF is_responsive[1]
  THEN SelectSeq(results, LAMBDA fmt : ~has_fixed_dimensions(fmt))
  ELSE SelectSeq(results, LAMBDA fmt : has_fixed_dimensions(fmt))

(* if name_search: results = [fmt ... if name_search.lower() in fmt.name.lower()] *)
filter_name_search(results, name_search) ==
  IF IsNone(name_search) \/ Len(name_search[1]) = 0 THEN results
  ELSE SelectSeq(results, LAMBDA fmt : contains(lower(fmt.name), lower(name_search[1])))

(* has_asset_type(req, target_type) for an AssetsRequired entry *)
has_asset_type(req, target_type) == req.asset_type = target_type

(* an asset-type pass with any() where the source has all() *)
filter_asset_types_any(results, asset_types) ==
  IF IsNone(asset_types) \/ Len(asset_types[1]) = 0 THEN results
  ELSE SelectSeq(results, LAMBDA fmt :
         /\ Len(fmt.assets_required) > 0
         /\ \E k \in 1..Len(asset_types[1]) :
              \E r \in 1..Len(fmt.assets_required) :
                has_asset_type(fmt.assets_required[r], asset_types[1][k]))

(* if asset_types: keep the formats that include ALL specified asset types *)
filter_asset_types(results, asset_types) ==
  IF IsNone(asset_types) \/ Len(asset_types[1]) = 0 THEN results
  ELSE SelectSeq(results, LAMBDA fmt :
         /\ Len(fmt.assets_required) > 0
         /\ \A k \in 1..Len(asset_types[1]) :
              \E r \in 1..Len(fmt.assets_required) :
                has_asset_type(fmt.assets_required[r], asset_types[1][k]))

(* filter_formats: the narrowing passes in source order *)
filter_formats(c) ==
  filter_asset_types(
    filter_name_search(
      filter_responsive(
        filter_bounds(
          filter_dimensions(
            filter_type(
              filter_format_ids(STANDARD_FORMATS, c.format_ids),
              c.type),
            c.dimensions),
          c.max_width, c.max_height, c.min_width, c.min_height),
        c.is_responsive),
      c.name_search),
    c.asset_types)

(* ------------------------------ validation ----------------------------- *)

(* A Python value of a manifest is a record [t, v]: t is its type ("none", "str",
   "int", "bool", "list", "dict") and v its content: the characters of a str, the
   number of an int, the truth value of a bool, the items of a list, the
   <<key, value>> entries of a dict in insertion order, <<>> for None.            *)
PyNone == [t |-> "none", v |-> <<>>]

PyStr(s) == [t |-> "str", v |-> s]

(* a str too long to spell out: the characters s followed by n payload characters
   "x" (no ",", ";", ":" or "/" among them) *)
LongStr(s, n) == [t |-> "str", v |-> s, n |-> n]

(* the number of characters of a str after the ones spelled out *)
fill(x) == IF "n" \in DOMAIN x THEN x.n ELSE 0

PyInt(n) == [t |-> "int", v |-> n]

(* a list; its items are kept as 1-tuples, which tells them from the (key, value)
   entries of a dict *)
PyList(l) == [t |-> "list", v |-> [i \in 1..Len(l) |-> <<l[i]>>]]

PyDict(entries) == [t |-> "dict", v |-> entries]

(* bool(x) *)
truthy(x) ==
  CASE x.t = "none" -> FALSE
    [] x.t = "int" -> x.v # 0
    [] x.t = "bool" -> x.v
    [] OTHER -> Len(x.v) > 0

isinstance_str(x) == x.t = "str"

isinstance_int(x) == x.t \in {"int", "bool"}

isinstance_dict(x) == x.t = "dict"

(* key in d, for a dict d *)
has_key(d, key) == \E i \in 1..Len(d.v) : d.v[i][1] = key

(* d.get(key): None when the key is absent *)
get(d, key) ==
  IF has_key(d, key) THEN d.v[CHOOSE i \in 1..Len(d.v) : d.v[i][1] = key][2] ELSE PyNone

(* x == "literal" for a Python value x and the characters of the literal *)
eq_str(x, s) == x.t = "str" /\ x.v = s

(* the outcomes of a validator: it returns, raises AssetValidationError(message),
   or raises another exception *)
Ok == [kind |-> "ok", message |-> ""]

Invalid(message) == [kind |-> "AssetValidationError", message |-> message]

Raised(exception) == [kind |-> exception, message |-> ""]

(* re.search(r"<[a-z][\s\S]*?>", s) *)
has_tag(s) ==
  \E i \in 1..(Len(s) - 2) :
    /\ s[i] = "<"
    /\ s[i + 1] \in Range(LowerChars)
    /\ \E j \in (i + 2)..Len(s) : s[j] = ">"

(* re.search(r"[^{}]+\{[^{}]*\}", s) *)
has_rule(s) ==
  \E i \in 2..Len(s) :
    /\ s[i] = "{"
    /\ s[i - 1] \notin {"{", "}"}
    /\ \E j \in (i + 1)..Len(s) :
         s[j] = "}" /\ \A k \in (i + 1)..(j - 1) : s[k] \notin {"{", "}"}

validate_html_content(content) ==
  IF Len(content) = 0 THEN Invalid("HTML content cannot be empty")
  ELSE LET content_lower == strip(lower(content))
           has_html_tag ==
             \/ contains(content_lower, <<"<", "h", "t", "m", "l">>)
             \/ contains(content_lower,
                  <<"<", "!", "d", "o", "c", "t", "y", "p", "e", " ", "h", "t", "m", "l", ">">>)
           has_body_tag == contains(content_lower, <<"<", "b", "o", "d", "y">>)
       IN IF ~has_tag(content_lower)
          THEN Invalid("HTML content must contain valid HTML tags")
          ELSE IF has_html_tag /\ ~has_body_tag
          THEN Invalid("HTML document must contain <body> tag")
          ELSE Ok

validate_css_content(content) ==
  IF Len(content) = 0 THEN Invalid("CSS content cannot be empty")
  ELSE IF ~has_rule(content) THEN Invalid("CSS content must contain at least one valid rule")
  ELSE Ok

validate_javascript_content(content) ==
  IF Len(content) = 0 THEN Invalid("JavaScript content cannot be empty")
  ELSE IF Len(strip(content)) < 5 THEN Invalid("JavaScript content is too short to be valid")
  ELSE Ok

validate_text_content(content) ==
  IF Len(strip(content)) = 0 THEN Invalid("Text content cannot be empty") ELSE Ok

(* s with every occurrence of the characters of cs removed *)
remove_chars(s, cs) == SelectSeq(s, LAMBDA c : c \notin cs)

(* the characters urlsplit accepts in a scheme *)
scheme_chars == Range(LowerChars) \cup Range(UpperChars) \cup Range(Digits) \cup {"+", "-", "."}

(* position after the netloc that starts at position 3 of s: the first of "/?#" *)
netloc_end(s) ==
  IF \E i \in 3..Len(s) : s[i] \in {"/", "?", "#"}
  THEN (CHOOSE i \in 3..Len(s) :
          s[i] \in {"/", "?", "#"} /\ \A j \in 3..(i - 1) : s[j] \notin {"/", "?", "#"}) - 1
  ELSE Len(s)

(* urllib.parse.urlparse(url), as far as validate_url reads it: the scheme and the
   netloc, or ValueError for a netloc with an unmatched square bracket *)
urlparse(url) ==
  LET u == remove_chars(lstrip(url), {"\t", "\r", "\n"})
      i == find(u, ":")
      has_scheme ==
        /\ i > 1
        /\ u[1] \in Range(LowerChars) \cup Range(UpperChars)
        /\ \A k \in 1..(i - 1) : u[k] \in scheme_chars
      scheme == IF has_scheme THEN lower(SubSeq(u, 1, i - 1)) ELSE <<>>
      rest == IF has_scheme THEN SubSeq(u, i + 1, Len(u)) ELSE u
      netloc == IF startswith(rest, <<"/", "/">>) THEN SubSeq(rest, 3, netloc_end(rest)) ELSE <<>>
  IN IF ("[" \in Range(netloc)) # ("]" \in Range(netloc))
     THEN [error |-> TRUE, scheme |-> <<>>, netloc |-> <<>>]
     ELSE [error |-> FALSE, scheme |-> scheme, netloc |-> netloc]

(* limit to 10MB for data URIs *)
MaxDataUriLength == 10 * 1024 * 1024

allowed_image_mimes ==
  {<<"i", "m", "a", "g", "e", "/", "p", "n", "g">>,
   <<"i", "m", "a", "g", "e", "/", "j", "p", "e", "g">>,
   <<"i", "m", "a", "g", "e", "/", "j", "p", "g">>,
   <<"i", "m", "a", "g", "e", "/", "g", "i", "f">>,
   <<"i", "m", "a", "g", "e", "/", "w", "e", "b", "p">>,
   <<"i", "m", "a", "g", "e", "/", "s", "v", "g", "+", "x", "m", "l">>}

(* s.replace(p, "") *)
RECURSIVE replace_empty(_, _)
replace_empty(s, p) ==
  IF Len(s) = 0 THEN s
  ELSE IF startswith(s, p) THEN replace_empty(SubSeq(s, Len(p) + 1, Len(s)), p)
  ELSE <<s[1]>> \o replace_empty(Tail(s), p)

(* validate_data_uri(uri) for a str uri; len(data) counts the payload characters
   that are not spelled out as well *)
validate_data_uri(uri) ==
  IF ~startswith(uri.v, <<"d", "a", "t", "a", ":">>)
  THEN Invalid("Data URI must start with 'data:'")
  ELSE IF find(uri.v, ",") = 0 THEN Invalid("Data URI must contain comma separator")
  ELSE LET header == SubSeq(uri.v, 1, find(uri.v, ",") - 1)
           data == SubSeq(uri.v, find(uri.v, ",") + 1, Len(uri.v))
           mime_part == replace_empty(split(header, ";")[1], <<"d", "a", "t", "a", ":">>)
       IN IF mime_part \notin allowed_image_mimes
          THEN Invalid("Data URI MIME type not allowed")
          ELSE IF Len(data) + fill(uri) > MaxDataUriLength
          THEN Invalid("Data URI exceeds 10MB size limit")
          ELSE Ok

dangerous_schemes ==
  {<<"j", "a", "v", "a", "s", "c", "r", "i", "p", "t", ":">>,
   <<"v", "b", "s", "c", "r", "i", "p", "t", ":">>,
   <<"f", "i", "l", "e", ":">>,
   <<"a", "b", "o", "u", "t", ":">>}

(* except Exception as e: raise AssetValidationError(f"Invalid URL format: {e}") *)
rewrap(outcome) ==
  IF outcome.kind = "ok" THEN outcome
  ELSE CASE outcome.message = "Data URI must start with 'data:'"
              -> Invalid("Invalid URL format: Data URI must start with 'data:'")
         [] outcome.message = "Data URI must contain comma separator"
              -> Invalid("Invalid URL format: Data URI must contain comma separator")
         [] outcome.message = "Data URI MIME type not allowed"
              -> Invalid("Invalid URL format: Data URI MIME type not allowed")
         [] outcome.message = "Data URI exceeds 10MB size limit"
              -> Invalid("Invalid URL format: Data URI exceeds 10MB size limit")

(* validate_url(url) for a Python value url; every exception of the try block is
   re-raised as AssetValidationError("Invalid URL format: ...") *)
validate_url(url) ==
  IF ~truthy(url) \/ ~isinstance_str(url) THEN Invalid("URL cannot be empty")
  ELSE LET url_lower == lower(url.v)
           parsed == urlparse(url.v)
       IN IF \E p \in dangerous_schemes : startswith(url_lower, p)
          THEN Invalid("URL scheme not allowed")
          ELSE IF parsed.error THEN Invalid("Invalid URL format: Invalid IPv6 URL")
          ELSE IF Len(parsed.scheme) = 0 \/ Len(parsed.netloc) = 0
          THEN IF startswith(url_lower, <<"d", "a", "t", "a", ":", "i", "m", "a", "g", "e", "/">>)
               THEN rewrap(validate_data_uri(url))
               ELSE Invalid("Invalid URL format: URL must have scheme and host")
          ELSE IF parsed.scheme \notin {<<"h", "t", "t", "p">>, <<"h", "t", "t", "p", "s">>}
          THEN Invalid("Invalid URL format: URL scheme must be http or https")
          ELSE Ok

(* validate_image_url(url, check_mime=False) for a str url; no caller of the
   validator enables check_mime, so the HEAD request is never made *)
validate_image_url(url) ==
  IF startswith(url.v, <<"d", "a", "t", "a", ":">>) THEN validate_data_uri(url)
  ELSE validate_url(url)

image_allowed_formats ==
  {<<"j", "p", "g">>, <<"j", "p", "e", "g">>, <<"p", "n", "g">>, <<"g", "i", "f">>,
   <<"w", "e", "b", "p">>, <<"s", "v", "g">>}

(* the image branch of validate_asset after the url checks *)
validate_image_fields(asset_data) ==
  LET width == get(asset_data, "width")
      height == get(asset_data, "height")
      img_format == get(asset_data, "format")
      int_value(x) == IF x.t = "bool" THEN (IF x.v THEN 1 ELSE 0) ELSE x.v
  IN IF width.t # "none" /\ (~isinstance_int(width) \/ int_value(width) < 1)
     THEN Invalid("Image width must be a positive integer")
     ELSE IF height.t # "none" /\ (~isinstance_int(height) \/ int_value(height) < 1)
     THEN Invalid("Image height must be a positive integer")
     ELSE IF ~truthy(img_format) THEN Ok
     ELSE IF ~isinstance_str(img_format) THEN Raised("AttributeError")
     ELSE IF lower(img_format.v) \notin image_allowed_formats
     THEN Invalid("Image format not allowed")
     ELSE Ok

validate_asset(asset_data) ==
  IF ~isinstance_dict(asset_data) THEN Invalid("Asset must be a dictionary")
  ELSE LET asset_type == get(asset_data, "asset_type")
           content == get(asset_data, "content")
           url == get(asset_data, "url")
       IN IF ~truthy(asset_type) THEN Invalid("Asset must have asset_type field")
          ELSE IF eq_str(asset_type, <<"h", "t", "m", "l">>)
          THEN IF ~isinstance_str(content) THEN Invalid("HTML asset must have string content")
               ELSE validate_html_content(content.v)
          ELSE IF eq_str(asset_type, <<"c", "s", "s">>)
          THEN IF ~isinstance_str(content) THEN Invalid("CSS asset must have string content")
               ELSE validate_css_content(content.v)
          ELSE IF eq_str(asset_type, <<"j", "a", "v", "a", "s", "c", "r", "i", "p", "t">>)
          THEN IF ~isinstance_str(content)
               THEN Invalid("JavaScript asset must have string content")
               ELSE validate_javascript_content(content.v)
          ELSE IF eq_str(asset_type, <<"t", "e", "x", "t">>)
          THEN IF ~isinstance_str(content) THEN Invalid("Text asset must have string content")
               ELSE validate_text_content(content.v)
          ELSE IF eq_str(asset_type, <<"u", "r", "l">>)
          THEN IF ~isinstance_str(url) THEN Invalid("URL asset must have string url")
               ELSE validate_url(url)
          ELSE IF eq_str(asset_type, <<"i", "m", "a", "g", "e">>)
          THEN IF ~isinstance_str(url) THEN Invalid("Image asset must have string url")
               ELSE IF validate_image_url(url).kind # "ok" THEN validate_image_url(url)
               ELSE validate_image_fields(asset_data)
          ELSE IF eq_str(asset_type, <<"v", "i", "d", "e", "o">>)
          THEN IF ~isinstance_str(url) THEN Invalid("Video asset must have string url")
               ELSE validate_url(url)
          ELSE IF eq_str(asset_type, <<"a", "u", "d", "i", "o">>)
          THEN IF ~isinstance_str(url) THEN Invalid("Audio asset must have string url")
               ELSE validate_url(url)
          ELSE Invalid("Unknown asset_type")


(* the entries of the error list validate_manifest_assets returns: the text of the
   message with the values its f-string interpolates *)
StructuralError(text) == [text |-> text, asset_id |-> "", detail |-> ""]

(* f"Missing required {asset_type} asset: '{asset_id}'" *)
MissingRequiredError(asset_type, asset_id) ==
  [text |-> "Missing required {asset_type} asset: '{asset_id}'",
   asset_id |-> asset_id, detail |-> asset_type]

(* f"Asset '{asset_id}': {e}" *)
AssetError(asset_id, e) ==
  [text |-> "Asset '{asset_id}': {e}", asset_id |-> asset_id, detail |-> e]

(* what a call of validate_manifest_assets does: it returns a list of errors, or an
   exception other than AssetValidationError escapes it *)
Returned(errors) == [kind |-> "return", errors |-> errors]

Escaped(exception) == [kind |-> exception, errors |-> <<>>]

(* the required-asset loop: one error per required requirement missing from assets *)
RECURSIVE check_required(_, _, _, _)
check_required(assets_required, assets, i, errors) ==
  IF i > Len(assets_required) THEN errors
  ELSE LET required_asset == assets_required[i]
           is_required == required_asset.required
           asset_id == required_asset.asset_id
       IN IF is_required /\ asset_id # "" /\ ~has_key(assets, asset_id)
          THEN check_required(assets_required, assets, i + 1,
                 Append(errors, MissingRequiredError(required_asset.asset_type, asset_id)))
          ELSE check_required(assets_required, assets, i + 1, errors)

(* the per-asset loop leaving at the first failing asset *)
RECURSIVE validate_each_break(_, _, _)
validate_each_break(assets, i, errors) ==
  IF i > Len(assets.v) THEN Returned(errors)
  ELSE LET asset_id == assets.v[i][1]
           outcome == validate_asset(assets.v[i][2])
       IN IF outcome.kind = "ok" THEN validate_each_break(assets, i + 1, errors)
          ELSE IF outcome.kind = "AssetValidationError"
          THEN Returned(Append(errors, AssetError(asset_id, outcome.message)))
          ELSE Escaped(outcome.kind)

(* the per-asset loop: for asset_id, asset_data in assets.items() *)
RECURSIVE validate_each(_, _, _)
validate_each(assets, i, errors) ==
  IF i > Len(assets.v) THEN Returned(errors)
  ELSE LET asset_id == assets.v[i][1]
           outcome == validate_asset(assets.v[i][2])
       IN IF outcome.kind = "ok" THEN validate_each(assets, i + 1, errors)
          ELSE IF outcome.kind = "AssetValidationError"
          THEN validate_each(assets, i + 1, Append(errors, AssetError(asset_id, outcome.message)))
          ELSE Escaped(outcome.kind)

(* validate_manifest_assets appending the error for a non-mapping assets field
   without returning: the required assets are then checked as well *)
validate_manifest_assets_no_return(manifest, format_obj) ==
  IF ~isinstance_dict(manifest) THEN Returned(<<StructuralError("Manifest must be a dictionary")>>)
  ELSE LET assets == get(manifest, "assets")
       IN IF ~truthy(assets)
          THEN Returned(<<StructuralError("Manifest must contain assets field")>>)
          ELSE IF ~isinstance_dict(assets)
          THEN Returned(
                 IF ~IsNone(format_obj) /\ Len(format_obj[1].assets_required) > 0
                 THEN check_required(format_obj[1].assets_required, PyDict(<<>>), 1,
                        <<StructuralError("Manifest assets must be a dictionary")>>)
                 ELSE <<StructuralError("Manifest assets must be a dictionary")>>)
          ELSE validate_each(assets, 1,
                 IF ~IsNone(format_obj) /\ Len(format_obj[1].assets_required) > 0
                 THEN check_required(format_obj[1].assets_required, assets, 1, <<>>)
                 ELSE <<>>)

(* validate_manifest_assets running the per-asset loop before the required-asset
   loop, so the missing-required errors come last *)
validate_manifest_assets_assets_first(manifest, format_obj) ==
  IF ~isinstance_dict(manifest) THEN Returned(<<StructuralError("Manifest must be a dictionary")>>)
  ELSE IF ~truthy(get(manifest, "assets"))
  THEN Returned(<<StructuralError("Manifest must contain assets field")>>)
  ELSE IF ~isinstance_dict(get(manifest, "assets"))
  THEN Returned(<<StructuralError("Manifest assets must be a dictionary")>>)
  ELSE IF validate_each(get(manifest, "assets"), 1, <<>>).kind # "return"
  THEN validate_each(get(manifest, "assets"), 1, <<>>)
  ELSE Returned(
         IF ~IsNone(format_obj) /\ Len(format_obj[1].assets_required) > 0
         THEN check_required(format_obj[1].assets_required, get(manifest, "assets"), 1,
                validate_each(get(manifest, "assets"), 1, <<>>).errors)
         ELSE validate_each(get(manifest, "assets"), 1, <<>>).errors)

(* validate_manifest_assets(manifest, check_remote_mime=False, format_obj) *)
validate_manifest_assets(manifest, format_obj) ==
  IF ~isinstance_dict(manifest) THEN Returned(<<StructuralError("Manifest must be a dictionary")>>)
  ELSE LET assets == get(manifest, "assets")
       IN IF ~truthy(assets)
          THEN Returned(<<StructuralError("Manifest must contain assets field")>>)
          ELSE IF ~isinstance_dict(assets)
          THEN Returned(<<StructuralError("Manifest assets must be a dictionary")>>)
          ELSE validate_each(assets, 1,
                 IF ~IsNone(format_obj) /\ Len(format_obj[1].assets_required) > 0
                 THEN check_required(format_obj[1].assets_required, assets, 1, <<>>)
                 ELSE <<>>)

(* -------------------------- the validator's inputs ---------------------- *)

ImageAsset ==
  PyDict(<<<<"asset_type", PyStr(<<"i", "m", "a", "g", "e">>)>>,
           <<"url", PyStr(<<"h", "t", "t", "p", "s", ":", "/", "/", "e", ".", "c", "o", "/", "a", ".", "p", "n", "g">>)>>,
           <<"width", PyInt(300)>>, <<"height", PyInt(250)>>>>)

UrlAsset ==
  PyDict(<<<<"asset_type", PyStr(<<"u", "r", "l">>)>>, <<"url", PyStr(<<"h", "t", "t", "p", "s", ":", "/", "/", "e", ".", "c", "o", "/", "g", "o">>)>>>>)

EmptyTextAsset ==
  PyDict(<<<<"asset_type", PyStr(<<"t", "e", "x", "t">>)>>, <<"content", PyStr(<<>>)>>>>)

ScriptUrlImageAsset ==
  PyDict(<<<<"asset_type", PyStr(<<"i", "m", "a", "g", "e">>)>>, <<"url", PyStr(<<"j", "a", "v", "a", "s", "c", "r", "i", "p", "t", ":", "x">>)>>>>)

IntFormatImageAsset ==
  PyDict(<<<<"asset_type", PyStr(<<"i", "m", "a", "g", "e">>)>>,
           <<"url", PyStr(<<"h", "t", "t", "p", "s", ":", "/", "/", "e", ".", "c", "o", "/", "a", ".", "p", "n", "g">>)>>,
           <<"format", PyInt(5)>>>>)

NotADictAsset == PyStr(<<"h", "t", "t", "p", "s", ":", "/", "/", "e", ".", "c", "o", "/", "a", ".", "p", "n", "g">>)

SampleAssets ==
  {ImageAsset, UrlAsset, EmptyTextAsset, ScriptUrlImageAsset, IntFormatImageAsset,
   NotADictAsset}

SampleAssetIds == {"banner_image", "click_url", "icon", "extra"}

(* the assets mappings of at most n entries, in every insertion order *)
RECURSIVE AssetEntries(_)
AssetEntries(n) ==
  IF n = 0 THEN {<<>>}
  ELSE AssetEntries(n - 1)
         \cup {Append(e, <<k, a>>) :
                 e \in {x \in AssetEntries(n - 1) : Len(x) = n - 1},
                 k \in SampleAssetIds, a \in SampleAssets}

UniqueKeys(entries) ==
  \A i, j \in 1..Len(entries) : i # j => entries[i][1] # entries[j][1]

(* ------------------- supplying a missing required asset ------------------ *)

(* the text asset of test_valid_manifest *)
TextAsset ==
  PyDict(<<<<"asset_type", PyStr(<<"t", "e", "x", "t">>)>>, <<"content", PyStr(<<"B", "u", "y", " ", "N", "o", "w", "!">>)>>>>)

VideoAsset ==
  PyDict(<<<<"asset_type", PyStr(<<"v", "i", "d", "e", "o">>)>>, <<"url", PyStr(<<"h", "t", "t", "p", "s", ":", "/", "/", "e", ".", "c", "o", "/", "v", ".", "m", "p", "4">>)>>>>)

AudioAsset ==
  PyDict(<<<<"asset_type", PyStr(<<"a", "u", "d", "i", "o">>)>>, <<"url", PyStr(<<"h", "t", "t", "p", "s", ":", "/", "/", "e", ".", "c", "o", "/", "a", ".", "m", "p", "3">>)>>>>)

HtmlAsset ==
  PyDict(<<<<"asset_type", PyStr(<<"h", "t", "m", "l">>)>>, <<"content", PyStr(<<"<", "d", "i", "v", ">", "x", "<", "/", "d", "i", "v", ">">>)>>>>)

(* the brand manifest reference of the manifest examples of mcp_server.py, tagged
   with the type the generative formats declare *)
BrandManifestAsset ==
  PyDict(<<<<"asset_type", PyStr(<<"b", "r", "a", "n", "d", "_", "m", "a", "n", "i", "f", "e", "s", "t">>)>>,
           <<"url", PyStr(<<"h", "t", "t", "p", "s", ":", "/", "/", "e", ".", "c", "o", "/", "b", "r", "a", "n", "d", ".", "j", "s", "o", "n">>)>>>>)

(* a well-formed asset whose asset_type is the one a requirement declares *)
WellFormedAsset(asset_type) ==
  CASE asset_type = "image" -> ImageAsset
    [] asset_type = "url" -> UrlAsset
    [] asset_type = "text" -> TextAsset
    [] asset_type = "video" -> VideoAsset
    [] asset_type = "audio" -> AudioAsset
    [] asset_type = "html" -> HtmlAsset
    [] asset_type = "brand_manifest" -> BrandManifestAsset

(* d[key] = value on a dict: the value of an existing key is replaced in place, a
   new key is inserted last *)
setitem(d, key, value) ==
  IF has_key(d, key)
  THEN PyDict([i \in 1..Len(d.v) |-> IF d.v[i][1] = key THEN <<key, value>> ELSE d.v[i]])
  ELSE PyDict(Append(d.v, <<key, value>>))

(* manifest["assets"][asset_id] = asset *)
with_asset(manifest, asset_id, asset) ==
  setitem(manifest, "assets", setitem(get(manifest, "assets"), asset_id, asset))

(* the asset ids the error list reports as missing required assets *)
missing_asset_ids(errors) ==
  {errors[i].asset_id : i \in {k \in 1..Len(errors) :
     errors[k].text = "Missing required {asset_type} asset: '{asset_id}'"}}

(* a request for a generative format that carries its prompt only *)
PromptOnlyManifest ==
  PyDict(<<<<"format_id", PyStr(<<"d", "i", "s", "p", "l", "a", "y", "_", "3", "0", "0", "x", "2", "5", "0", "_", "g", "e", "n", "e", "r", "a", "t", "i", "v", "e">>)>>,
           <<"assets", PyDict(<<<<"generation_prompt", TextAsset>>>>)>>>>)

(* a manifest whose assets were sent as a list holding an asset the per-asset
   validation could not handle *)
AssetsListManifest == PyDict(<<<<"assets", PyList(<<IntFormatImageAsset>>)>>>>)

(* ------------------------ the URL validators' inputs --------------------- *)

(* a data URI whose payload is n characters long *)
DataUri(header, n) == LongStr(header \o <<",">>, n)

SampleUrls ==
  {PyStr(<<"h", "t", "t", "p", "s", ":", "/", "/", "e", ".", "c", "o", "/", "x">>), PyStr(<<"h", "t", "t", "p", ":", "/", "/", "e", ".", "c", "o">>), PyStr(<<"H", "T", "T", "P", "S", ":", "/", "/", "E", ".", "C", "O", "/", "x">>),
   PyStr(<<" ", "h", "t", "t", "p", "s", ":", "/", "/", "e", ".", "c", "o">>), PyStr(<<"h", "t", "t", "p", "s", ":", "/", "/", "e", ".", "c", "o", "/", "j", "a", "v", "a", "s", "c", "r", "i", "p", "t", ":">>),
   PyStr(<<"h", "t", "t", "p", ":", "/", "/", ":", "8", "0", "/", "x">>), PyStr(<<"h", "t", "t", "p", ":", "/", "/", "[", ":", ":", "1">>),
   PyStr(<<"j", "a", "v", "a", "s", "c", "r", "i", "p", "t", ":", "a", "l", "e", "r", "t", "(", "1", ")">>), PyStr(<<"J", "a", "v", "a", "S", "c", "r", "i", "p", "t", ":", "x">>), PyStr(<<"j", "a", "v", "a", "s", "c", "r", "i", "p", "t", ":", "/", "/", "e", ".", "c", "o", "/", "x">>),
   PyStr(<<" ", "j", "a", "v", "a", "s", "c", "r", "i", "p", "t", ":", "x">>), PyStr(<<"v", "b", "s", "c", "r", "i", "p", "t", ":", "x">>), PyStr(<<"V", "B", "S", "C", "R", "I", "P", "T", ":", "x">>),
   PyStr(<<"f", "i", "l", "e", ":", "/", "/", "/", "e", "t", "c", "/", "p", "a", "s", "s", "w", "d">>), PyStr(<<"F", "i", "l", "e", ":", "/", "/", "e", ".", "c", "o", "/", "x">>), PyStr(<<"a", "b", "o", "u", "t", ":", "b", "l", "a", "n", "k">>),
   PyStr(<<"f", "t", "p", ":", "/", "/", "e", ".", "c", "o", "/", "x">>), PyStr(<<"/", "/", "e", ".", "c", "o", "/", "x">>), PyStr(<<"n", "o", "t", "-", "a", "-", "u", "r", "l">>), PyStr(<<>>),
   PyStr(<<"d", "a", "t", "a", ":", "i", "m", "a", "g", "e", "/", "p", "n", "g", ";", "b", "a", "s", "e", "6", "4", ",", "A", "A", "A">>), PyStr(<<"d", "a", "t", "a", ":", "i", "m", "a", "g", "e", "/", "s", "v", "g", "+", "x", "m", "l", ",", "<", "s", "v", "g", ">">>),
   PyStr(<<"D", "A", "T", "A", ":", "i", "m", "a", "g", "e", "/", "p", "n", "g", ",", "x">>), PyStr(<<"d", "a", "t", "a", ":", "i", "m", "a", "g", "e", "/", "p", "n", "g">>), PyStr(<<"d", "a", "t", "a", ":", "i", "m", "a", "g", "e", "/", "b", "m", "p", ",", "x">>),
   PyStr(<<"d", "a", "t", "a", ":", "i", "m", "d", "a", "t", "a", ":", "a", "g", "e", "/", "p", "n", "g", ",", "x">>), PyStr(<<"d", "a", "t", "a", ":", "t", "e", "x", "t", "/", "h", "t", "m", "l", ",", "x">>),
   DataUri(<<"d", "a", "t", "a", ":", "i", "m", "a", "g", "e", "/", "p", "n", "g", ";", "b", "a", "s", "e", "6", "4">>, MaxDataUriLength - 1),
   DataUri(<<"d", "a", "t", "a", ":", "i", "m", "a", "g", "e", "/", "j", "p", "e", "g">>, MaxDataUriLength),
   DataUri(<<"d", "a", "t", "a", ":", "i", "m", "a", "g", "e", "/", "p", "n", "g", ";", "b", "a", "s", "e", "6", "4">>, MaxDataUriLength + 1),
   DataUri(<<"d", "a", "t", "a", ":", "i", "m", "a", "g", "e", "/", "g", "i", "f">>, 11 * 1024 * 1024),
   DataUri(<<"d", "a", "t", "a", ":", "t", "e", "x", "t", "/", "h", "t", "m", "l", ";", "b", "a", "s", "e", "6", "4">>, MaxDataUriLength),
   DataUri(<<"d", "a", "t", "a", ":", "t", "e", "x", "t", "/", "h", "t", "m", "l">>, MaxDataUriLength + 1)}

UrlAssetTypes == {<<"u", "r", "l">>, <<"i", "m", "a", "g", "e">>, <<"v", "i", "d", "e", "o">>, <<"a", "u", "d", "i", "o">>}

(* a manifest whose single asset, of a type that carries a URL, has the url *)
UrlCarrier(asset_type, url) ==
  PyDict(<<<<"format_id", PyStr(<<"d", "i", "s", "p", "l", "a", "y", "_", "3", "0", "0", "x", "2", "5", "0", "_", "i", "m", "a", "g", "e">>)>>,
           <<"assets",
             PyDict(<<<<"extra", PyDict(<<<<"asset_type", PyStr(asset_type)>>, <<"url", url>>>>)>>>>)>>>>)

UrlCarrierManifests == {UrlCarrier(t, u) : t \in UrlAssetTypes, u \in SampleUrls}

SampleManifests ==
  {PyStr(<<"n", "o", "t", " ", "a", " ", "d", "i", "c", "t">>), PyNone,
   PyDict(<<<<"format_id", PyStr(<<"d", "i", "s", "p", "l", "a", "y", "_", "3", "0", "0", "x", "2", "5", "0", "_", "i", "m", "a", "g", "e">>)>>>>),
   PyDict(<<<<"assets", PyNone>>>>),
   PyDict(<<<<"assets", PyList(<<>>)>>>>),
   PyDict(<<<<"assets", PyList(<<ImageAsset>>)>>>>),
   PyDict(<<<<"assets", PyStr(<<"b", "a", "n", "n", "e", "r", "_", "i", "m", "a", "g", "e">>)>>>>)}
    \cup {PyDict(<<<<"format_id", PyStr(<<"d", "i", "s", "p", "l", "a", "y", "_", "3", "0", "0", "x", "2", "5", "0", "_", "i", "m", "a", "g", "e">>)>>, <<"assets", PyDict(e)>>>>) :
            e \in {x \in AssetEntries(MaxAssets) : UniqueKeys(x)}}
    \cup {PromptOnlyManifest, AssetsListManifest}
    \cup UrlCarrierManifests

SampleFormats ==
  {None, Some(F_display_300x250_image), Some(F_native_standard),
   Some(F_audio_standard_15s), Some(F_display_300x250_generative)}

(* ---------------------- server.py: preview_creative ---------------------- *)

(* the characters of a string *)
chars(s) == [i \in 1..Len(s) |-> SubSeq(s, i, i)]

(* str(AGENT_URL) *)
AGENT_URL == <<"h", "t", "t", "p", "s", ":", "/", "/", "c", "r", "e", "a", "t", "i", "v", "e", ".", "a", "d", "c", "o", "n", "t", "e", "x", "t", "p", "r", "o", "t", "o", "c", "o", "l", ".", "o", "r", "g", "/">>

(* FormatId(agent_url=agent_url, id=id) *)
FormatId(agent_url, id) == [agent_url |-> agent_url, id |-> id]

isinstance_FormatId(x) == "id" \in DOMAIN x

(* d.get(key, default) *)
get_default(d, key, default) == IF has_key(d, key) THEN get(d, key) ELSE default

(* the (id, agent_url) tuple of a FormatId object, of a dict, or ("", "") *)
normalize_format_id_for_comparison(fid) ==
  IF isinstance_FormatId(fid) THEN <<PyStr(chars(fid.id)), PyStr(fid.agent_url)>>
  ELSE IF isinstance_dict(fid)
  THEN <<get_default(fid, "id", PyStr(<<>>)), get_default(fid, "agent_url", PyStr(<<>>))>>
  ELSE <<PyStr(<<>>), PyStr(<<>>)>>

(* PreviewInput(name=name, macros=macros) *)
PreviewInput(name, macros) == [name |-> name, macros |-> macros]

(* whether PreviewInput accepts the dict as its keyword arguments: a name is required *)
is_preview_input(inp) == isinstance_dict(inp) /\ isinstance_str(get(inp, "name"))

(* the PreviewInput objects made of the dicts of inputs *)
parse_inputs(inputs) ==
  [i \in 1..Len(inputs) |-> PreviewInput(get(inputs[i], "name").v, get(inputs[i], "macros"))]

(* the default variants of a request without inputs *)
default_inputs ==
  <<PreviewInput(<<"D", "e", "s", "k", "t", "o", "p">>, PyDict(<<<<"DEVICE_TYPE", PyStr(<<"d", "e", "s", "k", "t", "o", "p">>)>>>>)),
    PreviewInput(<<"M", "o", "b", "i", "l", "e">>, PyDict(<<<<"DEVICE_TYPE", PyStr(<<"m", "o", "b", "i", "l", "e">>)>>>>)),
    PreviewInput(<<"T", "a", "b", "l", "e", "t">>, PyDict(<<<<"DEVICE_TYPE", PyStr(<<"t", "a", "b", "l", "e", "t">>)>>>>))>>

(* s.replace(a, b) for single characters a and b *)
replace_char(s, a, b) == [i \in 1..Len(s) |-> IF s[i] = a THEN b ELSE s[i]]

(* the url of the first asset of the manifest whose asset_type is asset_type *)
first_asset_url(manifest, asset_type) ==
  LET assets == get(manifest, "assets")
      hits == {i \in 1..Len(assets.v) :
                 /\ isinstance_dict(assets.v[i][2])
                 /\ eq_str(get(assets.v[i][2], "asset_type"), asset_type)}
  IN IF hits = {} THEN PyNone
     ELSE get(assets.v[CHOOSE i \in hits : \A j \in hits : i <= j][2], "url")

(* storage.generate_preview_html: the parts of the page that depend on its inputs *)
generate_preview_html(fmt, manifest, input_set) ==
  [title |-> <<fmt.name, input_set.name>>,
   image_url |-> first_asset_url(manifest, <<"i", "m", "a", "g", "e">>),
   click_url |-> first_asset_url(manifest, <<"u", "r", "l">>),
   label |-> input_set.name]

(* the S3 key of upload_preview_html: previews/{preview_id}/{variant_name}.html *)
preview_key(preview_id, variant_name) == <<"previews", preview_id, variant_name, ".html">>

(* _generate_preview_variant: the Preview with its single render and the input echo *)
_generate_preview_variant(input_set, preview_id, preview_url) ==
  [preview_id |-> preview_id,
   renders |-> <<[render_id |-> <<preview_id, "-primary">>, preview_url |-> preview_url,
                  role |-> "primary"]>>,
   input |-> [name |-> input_set.name, macros |-> input_set.macros]]

(* the loop with each new preview put in front of the earlier ones *)
RECURSIVE generate_variants_prepend(_, _, _, _, _, _, _)
generate_variants_prepend(fmt, manifest, inputs, i, preview_id, failing, done) ==
  IF i > Len(inputs) THEN [raised |-> FALSE, previews |-> done.previews,
                           calls |-> done.calls, uploads |-> done.uploads]
  ELSE LET input_set == inputs[i]
           html_content == generate_preview_html(fmt, manifest, input_set)
           variant_name == replace_char(lower(input_set.name), " ", "-")
           key == preview_key(preview_id, variant_name)
           called == done.calls \o <<"generate_preview_html", "upload_preview_html">>
       IN IF i = failing
          THEN [raised |-> TRUE, previews |-> done.previews, calls |-> called,
                uploads |-> done.uploads]
          ELSE generate_variants_prepend(fmt, manifest, inputs, i + 1, preview_id, failing,
                 [previews |-> <<_generate_preview_variant(input_set, preview_id, key)>>
                                 \o done.previews,
                  calls |-> Append(called, "_generate_preview_variant"),
                  uploads |-> Append(done.uploads, [key |-> key, body |-> html_content])])

(* the loop over request.inputs from input i on; the upload of input number failing
   raises (failing = 0: none does), which leaves the loop and the function *)
RECURSIVE generate_variants(_, _, _, _, _, _, _)
generate_variants(fmt, manifest, inputs, i, preview_id, failing, done) ==
  IF i > Len(inputs) THEN [raised |-> FALSE, previews |-> done.previews,
                           calls |-> done.calls, uploads |-> done.uploads]
  ELSE LET input_set == inputs[i]
           html_content == generate_preview_html(fmt, manifest, input_set)
           variant_name == replace_char(lower(input_set.name), " ", "-")
           key == preview_key(preview_id, variant_name)
           called == done.calls \o <<"generate_preview_html", "upload_preview_html">>
       IN IF i = failing
          THEN [raised |-> TRUE, previews |-> done.previews, calls |-> called,
                uploads |-> done.uploads]
          ELSE generate_variants(fmt, manifest, inputs, i + 1, preview_id, failing,
                 [previews |-> Append(done.previews,
                                 _generate_preview_variant(input_set, preview_id, key)),
                  calls |-> Append(called, "_generate_preview_variant"),
                  uploads |-> Append(done.uploads, [key |-> key, body |-> html_content])])

(* the JSON documents preview_creative returns *)
PreviewResponse(previews, preview_id) ==
  [kind |-> "previews", error |-> "", validation_errors |-> <<>>, previews |-> previews,
   preview_id |-> preview_id]

ErrorResponse(error, validation_errors) ==
  [kind |-> "error", error |-> error, validation_errors |-> validation_errors,
   previews |-> <<>>, preview_id |-> ""]

(* what one call did: the response, the functions called in order, the objects put
   into the bucket *)
Did(response, calls, uploads) == [response |-> response, calls |-> calls, uploads |-> uploads]

(* the inputs the variants are generated for *)
request_inputs(inputs) ==
  IF IsNone(inputs) \/ Len(inputs[1]) = 0 THEN default_inputs ELSE parse_inputs(inputs[1])

(* the end of preview_creative with the upload's exception swallowed: the previews
   made so far are returned *)
preview_after_generation_swallow(variants, preview_id) == Did(PreviewResponse(variants.previews, preview_id), variants.calls, variants.uploads)

(* preview_creative from the upload loop on: variants is what the loop did *)
preview_after_generation(variants, preview_id) ==
  IF variants.raised
  THEN Did(ErrorResponse("Preview generation failed: {e}", <<>>), variants.calls, variants.uploads)
  ELSE Did(PreviewResponse(variants.previews, preview_id), variants.calls, variants.uploads)

(* preview_creative from `if validation_errors:` on *)
preview_after_validation(validation_errors, fmt, creative_manifest, inputs, preview_id, failing) ==
  IF validation_errors.kind # "return"
  THEN Did(ErrorResponse("Preview generation failed: {e}", <<>>),
           <<"get_format_by_id", "validate_manifest_assets">>, <<>>)
  ELSE IF Len(validation_errors.errors) > 0
  THEN Did(ErrorResponse("Asset validation failed", validation_errors.errors),
           <<"get_format_by_id", "validate_manifest_assets">>, <<>>)
  ELSE preview_after_generation(
         generate_variants(fmt[1], creative_manifest, request_inputs(inputs), 1, preview_id,
           failing,
           [previews |-> <<>>,
            calls |-> <<"get_format_by_id", "validate_manifest_assets">>,
            uploads |-> <<>>]),
         preview_id)

(* the comparison of the format ids made after the validation of the assets *)
preview_after_lookup_validate_first(fmt, fmt_id, manifest_format_id, creative_manifest, inputs, preview_id, failing) ==
  LET validation_errors == validate_manifest_assets(creative_manifest, fmt)
  IN IF IsNone(fmt)
     THEN Did(ErrorResponse("Format {request.format_id} not found", <<>>),
              <<"get_format_by_id">>, <<>>)
     ELSE IF validation_errors.kind # "return" \/ Len(validation_errors.errors) > 0
     THEN preview_after_validation(validation_errors, fmt, creative_manifest, inputs,
                                   preview_id, failing)
     ELSE IF /\ truthy(manifest_format_id)
             /\ normalize_format_id_for_comparison(manifest_format_id)
                  # normalize_format_id_for_comparison(fmt_id)
     THEN Did(ErrorResponse("Manifest format_id '{manifest_format_id}' does not match request format_id '{request.format_id}'", <<>>),
              <<"get_format_by_id", "validate_manifest_assets">>, <<>>)
     ELSE preview_after_validation(validation_errors, fmt, creative_manifest, inputs,
                                   preview_id, failing)

(* preview_creative from `if not fmt:` on: fmt is what get_format_by_id returned *)
preview_after_lookup(fmt, fmt_id, manifest_format_id, creative_manifest, inputs, preview_id, failing) ==
  IF IsNone(fmt)
  THEN Did(ErrorResponse("Format {request.format_id} not found", <<>>),
           <<"get_format_by_id">>, <<>>)
  ELSE IF /\ truthy(manifest_format_id)
          /\ normalize_format_id_for_comparison(manifest_format_id)
               # normalize_format_id_for_comparison(fmt_id)
  THEN Did(ErrorResponse("Manifest format_id '{manifest_format_id}' does not match request format_id '{request.format_id}'", <<>>),
           <<"get_format_by_id">>, <<>>)
  ELSE preview_after_validation(validate_manifest_assets(creative_manifest, fmt), fmt,
                                creative_manifest, inputs, preview_id, failing)

(* preview_creative(format_id, creative_manifest, inputs) with the uuid4 drawn and the
   upload that fails, if one does *)
preview_creative(format_id, creative_manifest, inputs, preview_id, failing) ==
  IF ~IsNone(inputs) /\ \E i \in 1..Len(inputs[1]) : ~is_preview_input(inputs[1][i])
  THEN Did(ErrorResponse("Invalid input: {e}", <<>>), <<>>, <<>>)
  ELSE preview_after_lookup(get_format_by_id(FormatId(AGENT_URL, format_id).id),
                            FormatId(AGENT_URL, format_id),
                            get(creative_manifest, "format_id"),
                            creative_manifest, inputs, preview_id, failing)

(* --------------------- the inputs of preview_creative -------------------- *)

PreviewFormatIds == {"display_300x250_image", "display_728x90_image", "unknown_format_999"}

(* format_id as model_dump(mode="json") writes a FormatId into the manifest *)
FormatIdDict(agent_url, id) ==
  PyDict(<<<<"agent_url", PyStr(agent_url)>>, <<"id", PyStr(id)>>>>)

(* the format_id fields of the manifests: none, the plain string of the wire shape,
   the dumped FormatId of the request's format, of another format, of another agent *)
ManifestFormatIds ==
  {None,
   Some(PyStr(<<"d", "i", "s", "p", "l", "a", "y", "_", "3", "0", "0", "x", "2", "5", "0", "_", "i", "m", "a", "g", "e">>)),
   Some(FormatIdDict(AGENT_URL, <<"d", "i", "s", "p", "l", "a", "y", "_", "3", "0", "0", "x", "2", "5", "0", "_", "i", "m", "a", "g", "e">>)),
   Some(FormatIdDict(AGENT_URL, <<"d", "i", "s", "p", "l", "a", "y", "_", "7", "2", "8", "x", "9", "0", "_", "i", "m", "a", "g", "e">>)),
   Some(FormatIdDict(<<"h", "t", "t", "p", "s", ":", "/", "/", "o", "t", "h", "e", "r", ".", "e", "x", "a", "m", "p", "l", "e", "/">>, <<"d", "i", "s", "p", "l", "a", "y", "_", "3", "0", "0", "x", "2", "5", "0", "_", "i", "m", "a", "g", "e">>))}

PreviewAssets ==
  {PyDict(<<<<"banner_image", ImageAsset>>, <<"click_url", UrlAsset>>>>),
   PyDict(<<<<"banner_image", ImageAsset>>>>),
   PyDict(<<<<"banner_image", ScriptUrlImageAsset>>, <<"click_url", UrlAsset>>>>),
   PyDict(<<<<"banner_image", IntFormatImageAsset>>, <<"click_url", UrlAsset>>>>),
   PyList(<<ImageAsset, UrlAsset>>)}

PreviewManifests ==
  {IF IsNone(fid) THEN PyDict(<<<<"assets", assets>>>>)
   ELSE PyDict(<<<<"format_id", fid[1]>>, <<"assets", assets>>>>) :
     fid \in ManifestFormatIds, assets \in PreviewAssets}

SampleInputs ==
  {PyDict(<<<<"name", PyStr(<<"U", "S", " ", "D", "e", "s", "k", "t", "o", "p">>)>>,
            <<"macros", PyDict(<<<<"COUNTRY", PyStr(<<"U", "S">>)>>, <<"DEVICE", PyStr(<<"d", "e", "s", "k", "t", "o", "p">>)>>>>)>>>>),
   PyDict(<<<<"name", PyStr(<<"U", "K", " ", "M", "o", "b", "i", "l", "e">>)>>,
            <<"macros", PyDict(<<<<"COUNTRY", PyStr(<<"U", "K">>)>>, <<"DEVICE", PyStr(<<"m", "o", "b", "i", "l", "e">>)>>>>)>>>>),
   PyDict(<<<<"name", PyStr(<<"u", "s", "-", "d", "e", "s", "k", "t", "o", "p">>)>>,
            <<"macros", PyDict(<<<<"COUNTRY", PyStr(<<"U", "S">>)>>, <<"DEVICE", PyStr(<<"t", "a", "b", "l", "e", "t">>)>>>>)>>>>),
   PyDict(<<<<"macros", PyDict(<<<<"COUNTRY", PyStr(<<"U", "S">>)>>>>)>>>>)}

(* the lists of at most n input dicts *)
RECURSIVE InputLists(_)
InputLists(n) ==
  IF n = 0 THEN {<<>>}
  ELSE InputLists(n - 1)
         \cup {Append(l, inp) : l \in {x \in InputLists(n - 1) : Len(x) = n - 1},
                                inp \in SampleInputs}

PreviewInputsValues == {None} \cup {Some(l) : l \in InputLists(MaxInputs)}

(* uuid.uuid4() *)
PreviewIds == {"uuid-1", "uuid-2"}

(* ------------------- mcp_server.py: preview_creative -------------------- *)

(* "".join(cs) *)
RECURSIVE join(_)
join(cs) == IF Len(cs) = 0 THEN "" ELSE cs[1] \o join(Tail(cs))

PyBool(b) == [t |-> "bool", v |-> b]

(* json.loads: the scanner's result at a position of the text; end is the index
   after the value *)
Parsed(value, end) == [ok |-> TRUE, value |-> value, end |-> end]

JSONDecodeError == [ok |-> FALSE, value |-> PyNone, end |-> 0]

(* the index of the first character at or after i that is not JSON whitespace *)
RECURSIVE skip_ws(_, _)
skip_ws(s, i) ==
  IF i <= Len(s) /\ s[i] \in {" ", "\t", "\n", "\r"} THEN skip_ws(s, i + 1) ELSE i

(* the value of the run of decimal digits at i, and the index after it *)
RECURSIVE scan_digits(_, _, _)
scan_digits(s, i, n) ==
  IF i <= Len(s) /\ IsDigit(s[i]) THEN scan_digits(s, i + 1, 10 * n + DigitValue(s[i]))
  ELSE [n |-> n, end |-> i]

(* an integer: 0, or a digit 1-9 followed by digits (fractions and exponents do not
   occur in the texts modelled) *)
scan_int(s, i) ==
  IF i > Len(s) \/ ~IsDigit(s[i]) THEN JSONDecodeError
  ELSE IF s[i] = "0" THEN Parsed(PyInt(0), i + 1)
  ELSE LET d == scan_digits(s, i, 0) IN Parsed(PyInt(d.n), d.end)

(* the characters of a string from i on, up to its closing quote; acc holds the
   characters read so far (of the escapes, \uXXXX and \b do not occur in the texts
   modelled) *)
RECURSIVE scanstring(_, _, _)
scanstring(s, i, acc) ==
  IF i > Len(s) THEN JSONDecodeError
  ELSE IF s[i] = "\"" THEN Parsed(PyStr(acc), i + 1)
  ELSE IF s[i] \in {"\n", "\t", "\r"} THEN JSONDecodeError
  ELSE IF s[i] = "\\"
  THEN IF i + 1 > Len(s) THEN JSONDecodeError
       ELSE IF s[i + 1] \in {"\"", "\\", "/"} THEN scanstring(s, i + 2, Append(acc, s[i + 1]))
       ELSE IF s[i + 1] = "n" THEN scanstring(s, i + 2, Append(acc, "\n"))
       ELSE IF s[i + 1] = "t" THEN scanstring(s, i + 2, Append(acc, "\t"))
       ELSE IF s[i + 1] = "r" THEN scanstring(s, i + 2, Append(acc, "\r"))
       ELSE JSONDecodeError
  ELSE scanstring(s, i + 1, Append(acc, s[i]))

(* whether the text has the word at i *)
at(s, i, word) == i + Len(word) - 1 <= Len(s) /\ SubSeq(s, i, i + Len(word) - 1) = word

RECURSIVE scan_once(_, _)
RECURSIVE JSONArray(_, _, _)
RECURSIVE JSONObject(_, _, _)

(* the items of an array from i on, after the ones of acc; i is at an item *)
JSONArray(s, i, acc) ==
  LET item == scan_once(s, i)
      next == skip_ws(s, item.end)
  IN IF ~item.ok \/ next > Len(s) THEN JSONDecodeError
     ELSE IF s[next] = "]" THEN Parsed(PyList(Append(acc, item.value)), next + 1)
     ELSE IF s[next] = "," THEN JSONArray(s, skip_ws(s, next + 1), Append(acc, item.value))
     ELSE JSONDecodeError

(* the members of an object from i on, set into the dict acc; i is at a key *)
JSONObject(s, i, acc) ==
  IF i > Len(s) \/ s[i] # "\"" THEN JSONDecodeError
  ELSE LET key == scanstring(s, i + 1, <<>>)
           colon == skip_ws(s, key.end)
       IN IF ~key.ok \/ colon > Len(s) \/ s[colon] # ":" THEN JSONDecodeError
          ELSE LET value == scan_once(s, skip_ws(s, colon + 1))
                   next == skip_ws(s, value.end)
                   pairs == setitem(acc, join(key.value.v), value.value)
               IN IF ~value.ok \/ next > Len(s) THEN JSONDecodeError
                  ELSE IF s[next] = "}" THEN Parsed(pairs, next + 1)
                  ELSE IF s[next] = "," THEN JSONObject(s, skip_ws(s, next + 1), pairs)
                  ELSE JSONDecodeError

(* the JSON value that begins at i *)
scan_once(s, i) ==
  IF i > Len(s) THEN JSONDecodeError
  ELSE IF s[i] = "\"" THEN scanstring(s, i + 1, <<>>)
  ELSE IF s[i] = "{"
  THEN LET first == skip_ws(s, i + 1)
       IN IF first <= Len(s) /\ s[first] = "}" THEN Parsed(PyDict(<<>>), first + 1)
          ELSE JSONObject(s, first, PyDict(<<>>))
  ELSE IF s[i] = "["
  THEN LET first == skip_ws(s, i + 1)
       IN IF first <= Len(s) /\ s[first] = "]" THEN Parsed(PyList(<<>>), first + 1)
          ELSE JSONArray(s, first, <<>>)
  ELSE IF at(s, i, <<"n", "u", "l", "l">>) THEN Parsed(PyNone, i + 4)
  ELSE IF at(s, i, <<"t", "r", "u", "e">>) THEN Parsed(PyBool(TRUE), i + 4)
  ELSE IF at(s, i, <<"f", "a", "l", "s", "e">>) THEN Parsed(PyBool(FALSE), i + 5)
  ELSE IF s[i] = "-"
  THEN LET n == scan_int(s, i + 1)
       IN IF n.ok THEN Parsed(PyInt(0 - n.value.v), n.end) ELSE JSONDecodeError
  ELSE scan_int(s, i)

(* json.loads(s): one value between whitespace, and nothing after it *)
json_loads(s) ==
  LET value == scan_once(s, skip_ws(s, 1))
  IN IF value.ok /\ skip_ws(s, value.end) = Len(s) + 1 THEN value ELSE JSONDecodeError

(* the ValidationError entries of mcp_server.py, by path and type *)
ValidationError(path, type) == [path |-> path, type |-> type]

PreviewErrorResponse(errors) ==
  [kind |-> "error", errors |-> errors, preview_id |-> "", format_id |-> "",
   iframe |-> <<>>]

(* the iframe is given by the URLs it embeds *)
PreviewSuccessResponse(preview_id, format_id, iframe) ==
  [kind |-> "success", errors |-> <<>>, preview_id |-> preview_id, format_id |-> format_id,
   iframe |-> iframe]

(* an exception that leaves preview_creative *)
Escapes(exception) ==
  [kind |-> exception, errors |-> <<>>, preview_id |-> "", format_id |-> "", iframe |-> <<>>]

(* the loop over fmt.assets_required: the errors of the required assets from
   requirement i on *)
RECURSIVE check_asset_structure(_, _, _, _)
check_asset_structure(assets_required, assets, i, errors) ==
  IF i > Len(assets_required) THEN errors
  ELSE LET asset_req == assets_required[i]
           asset_id == asset_req.asset_id
           asset == get(assets, asset_id)
           asset_type == asset_req.asset_type
           found ==
             IF ~asset_req.required THEN <<>>
             ELSE IF ~has_key(assets, asset_id)
             THEN <<ValidationError("/assets/" \o asset_id, "missing_required_asset")>>
             ELSE IF ~isinstance_dict(asset)
             THEN <<ValidationError("/assets/" \o asset_id, "invalid_asset_structure")>>
             ELSE IF asset_type \in {"image", "video", "audio", "url", "brand_manifest"}
             THEN IF ~has_key(asset, "url")
                  THEN <<ValidationError("/assets/" \o asset_id \o "/url", "missing_required_field")>>
                  ELSE <<>>
             ELSE IF asset_type \in {"text", "html"}
             THEN IF ~has_key(asset, "value")
                  THEN <<ValidationError("/assets/" \o asset_id \o "/value", "missing_required_field")>>
                  ELSE <<>>
             ELSE <<>>
       IN check_asset_structure(assets_required, assets, i + 1, errors \o found)

(* asset_data.get("url", default) of the last dict asset whose id has one of the
   words, passing over the ids that have one of the words of skip; default when
   there is none *)
last_url(assets, words, skip, default) ==
  LET hits == {i \in 1..Len(assets.v) :
                 /\ isinstance_dict(assets.v[i][2])
                 /\ \E w \in words : contains(chars(assets.v[i][1]), w)
                 /\ \A w \in skip : ~contains(chars(assets.v[i][1]), w)}
  IN IF hits = {} THEN default
     ELSE get_default(assets.v[CHOOSE i \in hits : \A j \in hits : j <= i][2], "url", default)

(* the first dict asset whose id has "video" *)
first_video_url(assets) ==
  LET hits == {i \in 1..Len(assets.v) :
                 isinstance_dict(assets.v[i][2]) /\ contains(chars(assets.v[i][1]), <<"v", "i", "d", "e", "o">>)}
  IN IF hits = {} THEN PyStr(<<>>)
     ELSE get_default(assets.v[CHOOSE i \in hits : \A j \in hits : i <= j][2], "url", PyStr(<<>>))

(* the URLs the iframe of a format type embeds *)
iframe_html(fmt, assets) ==
  IF fmt.type = "display"
  THEN <<last_url(assets, {<<"b", "a", "n", "n", "e", "r", "_", "i", "m", "a", "g", "e">>, <<"i", "m", "a", "g", "e">>}, {}, PyStr(<<>>)),
         last_url(assets, {<<"c", "l", "i", "c", "k", "_", "u", "r", "l">>}, {<<"b", "a", "n", "n", "e", "r", "_", "i", "m", "a", "g", "e">>, <<"i", "m", "a", "g", "e">>}, PyStr(<<"#">>))>>
  ELSE IF fmt.type = "video" THEN <<first_video_url(assets)>>
  ELSE <<>>

(* preview_creative(manifest_json) of mcp_server.py, with the uuid4 drawn *)
mcp_preview_creative(manifest_json, preview_id) ==
  LET loaded == json_loads(manifest_json)
      manifest == loaded.value
      format_id == get(manifest, "format_id")
      fmt == IF isinstance_str(format_id) THEN get_format_by_id(join(format_id.v)) ELSE None
      assets == get(manifest, "assets")
      errors ==
        IF assets.t = "none" THEN <<ValidationError("/assets", "missing_required_field")>>
        ELSE IF ~isinstance_dict(assets) THEN <<ValidationError("/assets", "invalid_type")>>
        ELSE IF Len(fmt[1].assets_required) > 0
        THEN check_asset_structure(fmt[1].assets_required, assets, 1, <<>>)
        ELSE <<>>
  IN IF ~loaded.ok
     THEN PreviewErrorResponse(<<ValidationError("/", "json_syntax_error")>>)
     ELSE IF ~isinstance_dict(manifest) THEN Escapes("AttributeError")
     ELSE IF ~truthy(format_id)
     THEN PreviewErrorResponse(<<ValidationError("/format_id", "missing_required_field")>>)
     ELSE IF IsNone(fmt)
     THEN PreviewErrorResponse(<<ValidationError("/format_id", "invalid_format_id")>>)
     ELSE IF Len(errors) > 0 THEN PreviewErrorResponse(errors)
     ELSE PreviewSuccessResponse(preview_id, join(format_id.v), iframe_html(fmt[1], assets))

(* ------------------- the inputs of mcp preview_creative ------------------ *)

(* texts that are not JSON *)
MalformedJson ==
  {"", "{", "not json", "{\"format_id\": \"display_300x250_image\",}",
   "{\"format_id\": \"display_300x250_image\"} x", "{'format_id': 1}", "[1, 2",
   "{\"format_id\" \"display_300x250_image\"}"}

(* JSON texts of values that are not objects *)
NonObjectJson == {"[]", "[1, 2]", "\"display_300x250_image\"", "5", "-3", "null", "true", " false "}

(* JSON objects: without format_id, of an unknown format, without assets, with
   assets of the wrong type, with and without the required assets *)
ObjectJson ==
  {"{}",
   "{\"assets\": {}}",
   "{\"format_id\": \"\", \"assets\": {}}",
   "{\"format_id\": \"unknown_format_999\", \"assets\": []}",
   "{\"format_id\": 5}",
   "{\"format_id\": {\"id\": \"display_300x250_image\"}}",
   "{\"format_id\": \"display_300x250_image\"}",
   "{\"format_id\": \"display_300x250_image\", \"assets\": null}",
   "{\"format_id\": \"display_300x250_image\", \"assets\": []}",
   "{\"format_id\": \"display_300x250_image\", \"assets\": \"x\"}",
   "{\"format_id\": \"display_300x250_image\", \"assets\": {}}",
   "{\"format_id\": \"display_300x250_image\", \"assets\": {\"banner_image\": {\"url\": \"https://e.co/a.png\"}}}",
   "{\"format_id\": \"display_300x250_image\", \"assets\": {\"banner_image\": \"https://e.co/a.png\", \"click_url\": {\"value\": \"x\"}}}",
   "{ \"format_id\" : \"display_300x250_image\" ,\n \"assets\" : { \"banner_image\" : { \"url\" : \"https://e.co/a.png\" } , \"click_url\" : { \"url\" : \"https://e.co/go\" } } } ",
   "{\"format_id\": \"display_300x250_image\", \"assets\": {\"banner_image\": {\"asset_type\": \"image\", \"url\": \"javascript:x\"}, \"click_url\": {\"url\": \"https://e.co/go\"}}}",
   "{\"format_id\": \"display_300x250_image\", \"format_id\": \"display_728x90_image\", \"assets\": {\"banner_image\": {\"url\": \"\\/a.png\"}, \"click_url\": {}}}"}

SampleJson == MalformedJson \cup NonObjectJson \cup ObjectJson


(* ------------------- server.py: build_creative, up to generation ------- *)

BuildError(error) == [kind |-> "error", error |-> error, format_id |-> "", output_format_id |-> ""]

(* the point where build_creative hands fmt and output_fmt to the generation prompt *)
Generation(fmt, output_fmt) == [kind |-> "generate", error |-> "", format_id |-> fmt.format_id, output_format_id |-> output_fmt.format_id]

(* if not output_fmt_result: return {"error": "Output format ... not found"} *)
build_after_output_lookup(fmt, output_fmt_result) == IF IsNone(output_fmt_result) THEN BuildError("Output format {fmt.output_format_ids[0]} not found") ELSE Generation(fmt[1], output_fmt_result[1])

(* if not fmt: "Format ... not found"; output_fmt = fmt unless fmt.output_format_ids is non-empty *)
build_after_lookup(fmt) ==
  IF IsNone(fmt) THEN BuildError("Format {request.format_id} not found")
  ELSE IF ~IsNone(fmt[1].output_format_ids) /\ Len(fmt[1].output_format_ids[1]) > 0
       THEN build_after_output_lookup(fmt, get_format_by_id(fmt[1].output_format_ids[1][1]))
       ELSE Generation(fmt[1], fmt[1])

(* the checks of build_creative in source order: message length, gemini_api_key,
   output_mode, then the two registry lookups *)
build_creative(message_ok, gemini_api_key, output_mode, format_id) ==
  IF ~message_ok THEN BuildError("Message must be between 1 and 10000 characters")
  ELSE IF ~gemini_api_key THEN BuildError("gemini_api_key is required")
  ELSE IF output_mode \notin {"manifest", "code"} THEN BuildError("Invalid output_mode")
  ELSE build_after_lookup(get_format_by_id(FormatId(AGENT_URL, format_id).id))

BuildFormatIds ==
  {STANDARD_FORMATS[i].format_id : i \in 1..Len(STANDARD_FORMATS)} \cup {"unknown_format_999"}

OutputModes == {"manifest", "code", "html"}

(* ------------- the manifest a format's own declaration calls for -------- *)

(* the manifest with one well-formed asset of the declared type under the
   asset_id of every required requirement of the format, in declaration order *)
DeclaredManifest(fmt) ==
  PyDict(<<<<"format_id", PyStr(chars(fmt.format_id))>>,
           <<"assets",
             PyDict([i \in 1..Len(SelectSeq(fmt.assets_required, LAMBDA r : r.required)) |->
                       <<SelectSeq(fmt.assets_required, LAMBDA r : r.required)[i].asset_id,
                         WellFormedAsset(SelectSeq(fmt.assets_required, LAMBDA r : r.required)[i].asset_type)>>])>>>>)

(* ------------- the registry as the list object the module holds -------- *)

(* get_format_by_id over the current elements of the STANDARD_FORMATS list:
   first index at or after i whose format_id equals format_id, 0 if none *)
RECURSIVE scan_list(_, _, _)
scan_list(formats, i, format_id) ==
  IF i > Len(formats) THEN 0
  ELSE IF formats[i].format_id = format_id THEN i
  ELSE scan_list(formats, i + 1, format_id)

get_format_by_id_in(formats, format_id) == IF scan_list(formats, 1, format_id) = 0 THEN None ELSE Some(formats[scan_list(formats, 1, format_id)])

(* filter_formats over the current elements of the STANDARD_FORMATS list *)
filter_formats_in(formats, c) ==
  filter_asset_types(
    filter_name_search(
      filter_responsive(
        filter_bounds(
          filter_dimensions(
            filter_type(
              filter_format_ids(formats, c.format_ids),
              c.type),
            c.dimensions),
          c.max_width, c.max_height, c.min_width, c.min_height),
        c.is_responsive),
      c.name_search),
    c.asset_types)

(* whether some pass of filter_formats rebinds results to a new list: each pass
   whose guard is true does, and with no guard true `results = STANDARD_FORMATS`
   is what the function returns *)
rebinds(c) ==
  \/ ~IsNone(c.format_ids) /\ Len(c.format_ids[1]) > 0
  \/ ~IsNone(c.type) /\ c.type[1] # ""
  \/ ~IsNone(c.dimensions) /\ Len(c.dimensions[1]) > 0
  \/ truthy_int(c.max_width) \/ truthy_int(c.max_height)
  \/ truthy_int(c.min_width) \/ truthy_int(c.min_height)
  \/ ~IsNone(c.is_responsive)
  \/ ~IsNone(c.name_search) /\ Len(c.name_search[1]) > 0
  \/ ~IsNone(c.asset_types) /\ Len(c.asset_types[1]) > 0

(* --------------------- calls running side by side ---------------------- *)

Workers == 1..MaxWorkers

(* a worker that runs no call *)
IdleWorker == [kind |-> "idle", pc |-> "idle", call |-> 0, args |-> <<>>, acc |-> <<>>, result |-> <<>>]
(* ------------------------------ the inputs ----------------------------- *)

FormatIdsValues ==
  {<<>>, <<"display_300x250_image">>, <<"display_300x250_image", "display_728x90_image">>,
   <<"does_not_exist">>}

TypeValues == {"", "display", "video", "audio", "native", "dooh", "universal"}

AssetTypesValues ==
  {<<>>, <<"image">>, <<"image", "url">>, <<"text", "image">>, <<"audio">>, <<"css">>}

DimensionsValues ==
  {<<>>,
   <<"3", "0", "0", "x", "2", "5", "0">>,
   <<"9", "7", "0", "x", "2", "5", "0">>,
   <<"1", "9", "2", "0", "x", "1", "0", "8", "0">>,
   <<"0", "3", "0", "0", "x", "2", "5", "0">>,
   <<"3", "0", "0", "x", "2", "5", "1">>}

MaxWidthValues == {0 - 1, 0, 300, 728, 1920}

MaxHeightValues == {0, 250, 1080}

MinWidthValues == {0, 300, 728}

MinHeightValues == {0, 250, 600}

NameSearchValues ==
  {<<>>,
   <<"b", "i", "l", "l", "b", "o", "a", "r", "d">>,
   <<"A", "u", "d", "i", "o">>,
   <<"z", "z", "z">>}

LookupIds ==
  {STANDARD_FORMATS[i].format_id : i \in 1..Len(STANDARD_FORMATS)}
    \cup {"does_not_exist", "", "display_300x250", "DISPLAY_300X250_IMAGE"}

(* the criteria of a filter_formats() call without arguments *)
NoCriteria ==
  [format_ids |-> None, type |-> None, asset_types |-> None, dimensions |-> None,
   max_width |-> None, max_height |-> None, min_width |-> None, min_height |-> None,
   is_responsive |-> None, name_search |-> None]

CriteriaFields == DOMAIN NoCriteria

Supplied(c) == {f \in CriteriaFields : ~IsNone(c[f])}

(* the values an optional argument can take once `used` arguments are supplied *)
Arg(values, used) ==
  {None} \cup (IF used < MaxCriteria THEN {Some(v) : v \in values} ELSE {})

N(o) == IF IsNone(o) THEN 0 ELSE 1

(* ------------------------------ the machine ---------------------------- *)

VARIABLES
  op,          \* "idle", or the operation whose call has just returned
  crit,        \* the criteria of the last filter_formats call
  results,     \* the list filter_formats returned
  format_id,   \* the argument of the last get_format_by_id / get_format call
  found,       \* what get_format_by_id returned
  response,    \* what api_server.get_format answered
  manifest,    \* the manifest of the last validate_manifest_assets call
  format_obj,  \* its format_obj argument
  validation,  \* what the call did: the returned error list, or the escaped exception
  previous, \* what the call before the asset was supplied returned
  supplied, \* the asset id supplied before the manifest was validated again
  url, \* the argument of the last validate_url / validate_data_uri call
  outcome, \* whether that call returned or raised
  request, \* the arguments of the last preview_creative call and the upload that failed in it
  reply, \* the response of that call
  calls, \* the functions the call called, in order
  uploads, \* the objects the call put into the bucket, in order
  manifest_json, \* the text passed to the last mcp_server preview_creative call
  mcp_response, \* what that call returned, or the exception that left it
  build, \* the arguments and the outcome of the last build_creative call, up to generation
  registry, \* the elements of the list object STANDARD_FORMATS names
  alias, \* whether the list filter_formats returned is the registry list itself
  workers, \* the call each worker runs, its position and what it holds
  storage, \* the objects of the bucket: key and body
  started  \* the number of calls started so far

vars == <<op, crit, results, format_id, found, response, manifest, format_obj, validation, previous, supplied, url, outcome, request, reply, calls, uploads, manifest_json, mcp_response, build, registry, alias, workers, storage, started>>

Init ==
  /\ op = "idle"
  /\ crit = NoCriteria
  /\ results = <<>>
  /\ format_id = ""
  /\ found = None
  /\ response = [status |-> 0, body |-> None]
  /\ manifest = PyNone
  /\ format_obj = None
  /\ validation = Returned(<<>>)
  /\ previous = Returned(<<>>)
  /\ supplied = ""
  /\ url = PyNone
  /\ outcome = Ok
  /\ request = [format_id |-> "", creative_manifest |-> PyNone, inputs |-> None, failing |-> 0]
  /\ reply = ErrorResponse("", <<>>)
  /\ calls = <<>>
  /\ uploads = <<>>
  /\ manifest_json = ""
  /\ mcp_response = PreviewErrorResponse(<<>>)
  /\ build = <<>>
  /\ registry = STANDARD_FORMATS
  /\ alias = FALSE
  /\ workers = [w \in Workers |-> IdleWorker]
  /\ storage = {}
  /\ started = 0

(* one call of filter_formats with at most MaxCriteria arguments *)
FilterCall ==
  /\ op = "idle"
  /\ \E format_ids \in Arg(FormatIdsValues, 0) :
     \E type \in Arg(TypeValues, N(format_ids)) :
     \E asset_types \in Arg(AssetTypesValues, N(format_ids) + N(type)) :
     \E dimensions \in Arg(DimensionsValues, N(format_ids) + N(type) + N(asset_types)) :
     \E max_width \in Arg(MaxWidthValues,
          N(format_ids) + N(type) + N(asset_types) + N(dimensions)) :
     \E max_height \in Arg(MaxHeightValues,
          N(format_ids) + N(type) + N(asset_types) + N(dimensions) + N(max_width)) :
     \E min_width \in Arg(MinWidthValues,
          N(format_ids) + N(type) + N(asset_types) + N(dimensions) + N(max_width)
            + N(max_height)) :
     \E min_height \in Arg(MinHeightValues,
          N(format_ids) + N(type) + N(asset_types) + N(dimensions) + N(max_width)
            + N(max_height) + N(min_width)) :
     \E is_responsive \in Arg(BOOLEAN,
          N(format_ids) + N(type) + N(asset_types) + N(dimensions) + N(max_width)
            + N(max_height) + N(min_width) + N(min_height)) :
     \E name_search \in Arg(NameSearchValues,
          N(format_ids) + N(type) + N(asset_types) + N(dimensions) + N(max_width)
            + N(max_height) + N(min_width) + N(min_height) + N(is_responsive)) :
       LET c == [format_ids |-> format_ids, type |-> type, asset_types |-> asset_types,
                 dimensions |-> dimensions, max_width |-> max_width,
                 max_height |-> max_height, min_width |-> min_width,
                 min_height |-> min_height, is_responsive |-> is_responsive,
                 name_search |-> name_search]
       IN /\ op' = "filter"
          /\ crit' = c
          /\ results' = filter_formats(c)
          /\ UNCHANGED <<format_id, found, response, manifest, format_obj, validation, previous, supplied, url, outcome, request, reply, calls, uploads, manifest_json, mcp_response, build, registry, alias, workers, storage, started>>

(* one call of get_format_by_id, and of the /formats/{format_id} handler on top of it *)
LookupCall ==
  /\ op = "idle"
  /\ \E id \in LookupIds :
    /\ op' = "lookup"
    /\ format_id' = id
    /\ found' = get_format_by_id(id)
    /\ response' = get_format(id)
    /\ UNCHANGED <<crit, results, manifest, format_obj, validation, previous, supplied, url, outcome, request, reply, calls, uploads, manifest_json, mcp_response, build, registry, alias, workers, storage, started>>

(* one call of validate_manifest_assets(manifest, check_remote_mime=False, format_obj) *)
ValidateCall ==
  /\ op = "idle"
  /\ \E m \in SampleManifests, f \in SampleFormats :
       /\ op' = "validate"
       /\ manifest' = m
       /\ format_obj' = f
       /\ validation' = validate_manifest_assets(m, f)
       /\ UNCHANGED <<crit, results, format_id, found, response, previous, supplied, url, outcome, request, reply, calls, uploads, manifest_json, mcp_response, build, registry, alias, workers, storage, started>>

(* list_creative_formats called with dimension bounds only (server.py passes all four) *)
FilterBoundsCall ==
  /\ op = "idle"
  /\ \E max_width \in {None} \cup {Some(v) : v \in MaxWidthValues} :
     \E max_height \in {None} \cup {Some(v) : v \in MaxHeightValues} :
     \E min_width \in {None} \cup {Some(v) : v \in MinWidthValues} :
     \E min_height \in {None} \cup {Some(v) : v \in MinHeightValues} :
       LET c == [NoCriteria EXCEPT !.max_width = max_width, !.max_height = max_height,
                                   !.min_width = min_width, !.min_height = min_height]
       IN /\ op' = "filter"
          /\ crit' = c
          /\ results' = filter_formats(c)
          /\ UNCHANGED <<format_id, found, response, manifest, format_obj, validation, previous, supplied, url, outcome, request, reply, calls, uploads, manifest_json, mcp_response, build, registry, alias, workers, storage, started>>

(* the caller supplies a well-formed asset of the declared type for one of the
   asset ids reported missing and calls validate_manifest_assets again *)
RevalidateCall ==
  /\ op = "validate"
  /\ validation.kind = "return"
  /\ ~IsNone(format_obj)
  /\ \E r \in 1..Len(format_obj[1].assets_required) :
       LET required_asset == format_obj[1].assets_required[r]
           m == with_asset(manifest, required_asset.asset_id,
                           WellFormedAsset(required_asset.asset_type))
       IN /\ required_asset.asset_id \in missing_asset_ids(validation.errors)
          /\ op' = "revalidate"
          /\ manifest' = m
          /\ validation' = validate_manifest_assets(m, format_obj)
          /\ previous' = validation
          /\ supplied' = required_asset.asset_id
          /\ UNCHANGED <<crit, results, format_id, found, response, format_obj, url, outcome, request, reply, calls, uploads, manifest_json, mcp_response, build, registry, alias, workers, storage, started>>

(* one call of validate_url *)
ValidateUrlCall ==
  /\ op = "idle"
  /\ \E u \in SampleUrls :
       /\ op' = "validate_url"
       /\ url' = u
       /\ outcome' = validate_url(u)
       /\ UNCHANGED <<crit, results, format_id, found, response, manifest, format_obj,
                      validation, previous, supplied, request, reply, calls, uploads, manifest_json, mcp_response, build, registry, alias, workers, storage, started>>

(* one call of validate_data_uri *)
ValidateDataUriCall ==
  /\ op = "idle"
  /\ \E u \in SampleUrls :
       /\ op' = "validate_data_uri"
       /\ url' = u
       /\ outcome' = validate_data_uri(u)
       /\ UNCHANGED <<crit, results, format_id, found, response, manifest, format_obj,
                      validation, previous, supplied, request, reply, calls, uploads, manifest_json, mcp_response, build, registry, alias, workers, storage, started>>

(* one call of server.py's preview_creative; the uuid4 it draws and the upload that
   fails are the environment's choice *)
PreviewCreativeCall ==
  /\ op = "idle"
  /\ \E id \in PreviewFormatIds, m \in PreviewManifests, inputs \in PreviewInputsValues,
        preview_id \in PreviewIds, failing \in 0..(MaxInputs + 1) :
       /\ failing <= Len(request_inputs(inputs))
       /\ \E did \in {preview_creative(id, m, inputs, preview_id, failing)} :
            /\ op' = "preview_creative"
            /\ request' = [format_id |-> id, creative_manifest |-> m, inputs |-> inputs,
                           failing |-> failing]
            /\ reply' = did.response
            /\ calls' = did.calls
            /\ uploads' = did.uploads
       /\ UNCHANGED <<crit, results, format_id, found, response, manifest, format_obj,
                      validation, previous, supplied, url, outcome, manifest_json,
                      mcp_response, build, registry, alias, workers, storage, started>>

(* one call of mcp_server.py's preview_creative *)
McpPreviewCreativeCall ==
  /\ op = "idle"
  /\ \E text \in SampleJson, preview_id \in PreviewIds :
       /\ op' = "mcp_preview_creative"
       /\ manifest_json' = text
       /\ mcp_response' = mcp_preview_creative(chars(text), preview_id)
       /\ UNCHANGED <<crit, results, format_id, found, response, manifest, format_obj,
                      validation, previous, supplied, url, outcome, request, reply, calls,
                      uploads, build, registry, alias, workers, storage, started>>

(* one call of validate_manifest_assets for a registry format, on the manifest the
   format's declaration calls for *)
ValidateDeclaredCall ==
  /\ op = "idle"
  /\ \E i \in 1..Len(STANDARD_FORMATS) :
       /\ op' = "validate"
       /\ manifest' = DeclaredManifest(STANDARD_FORMATS[i])
       /\ format_obj' = Some(STANDARD_FORMATS[i])
       /\ validation' = validate_manifest_assets(DeclaredManifest(STANDARD_FORMATS[i]), Some(STANDARD_FORMATS[i]))
       /\ UNCHANGED <<crit, results, format_id, found, response, previous, supplied, url, outcome, request, reply, calls, uploads, manifest_json, mcp_response, build, registry, alias, workers, storage, started>>

(* one call of build_creative, followed up to the point where generation starts *)
BuildCreativeCall ==
  /\ op = "idle"
  /\ \E message_ok \in BOOLEAN, gemini_api_key \in BOOLEAN, output_mode \in OutputModes, id \in BuildFormatIds :
       /\ op' = "build_creative"
       /\ build' = <<[message_ok |-> message_ok, gemini_api_key |-> gemini_api_key, output_mode |-> output_mode, format_id |-> id], build_creative(message_ok, gemini_api_key, output_mode, id)>>
       /\ UNCHANGED <<crit, results, format_id, found, response, manifest, format_obj, validation, previous, supplied, url, outcome, request, reply, calls, uploads, manifest_json, mcp_response, registry, alias, workers, storage, started>>

(* the call has returned to its caller; the process waits for the next request *)
Return ==
  /\ op # "idle"
  /\ op' = "idle"
  /\ crit' = NoCriteria
  /\ results' = <<>>
  /\ format_id' = ""
  /\ found' = None
  /\ response' = [status |-> 0, body |-> None]
  /\ manifest' = PyNone
  /\ format_obj' = None
  /\ validation' = Returned(<<>>)
  /\ previous' = Returned(<<>>)
  /\ supplied' = ""
  /\ url' = PyNone
  /\ outcome' = Ok
  /\ request' = [format_id |-> "", creative_manifest |-> PyNone, inputs |-> None, failing |-> 0]
  /\ reply' = ErrorResponse("", <<>>)
  /\ calls' = <<>>
  /\ uploads' = <<>>
  /\ manifest_json' = ""
  /\ mcp_response' = PreviewErrorResponse(<<>>)
  /\ build' = <<>>
  /\ alias' = FALSE
  /\ UNCHANGED <<registry, workers, storage, started>>

Next ==
  \/ FilterCall \/ FilterBoundsCall \/ LookupCall
  \/ ValidateCall \/ ValidateDeclaredCall \/ RevalidateCall
  \/ ValidateUrlCall \/ ValidateDataUriCall
  \/ PreviewCreativeCall
  \/ McpPreviewCreativeCall
  \/ BuildCreativeCall
  \/ Return

Spec == Init /\ [][Next]_vars


(* ------------- a caller that changes the list it was returned ---------- *)

(* the variables of the calls a caller of filter_formats does not make *)
other_calls == <<response, manifest, format_obj, validation, previous, supplied, url, outcome, request, reply, calls, uploads, manifest_json, mcp_response, build, workers, storage, started>>

(* a format record the caller made itself *)
CallerFormat == [F_display_300x250_image EXCEPT !.format_id = "caller_added"]

RECURSIVE reversed(_)
reversed(l) == IF Len(l) = 0 THEN <<>> ELSE Append(reversed(Tail(l)), Head(l))

(* list.append(x), list.pop(0), list.reverse() on a Python list *)
mutate(l, how) ==
  CASE how = "append" -> Append(l, CallerFormat)
    [] how = "pop" -> IF Len(l) = 0 THEN l ELSE Tail(l)
    [] how = "reverse" -> reversed(l)

Mutations == {"append", "pop", "reverse"}

CallerCriteria ==
  {NoCriteria,
   [NoCriteria EXCEPT !.format_ids = Some(<<>>)],
   [NoCriteria EXCEPT !.type = Some("")],
   [NoCriteria EXCEPT !.max_width = Some(0)],
   [NoCriteria EXCEPT !.format_ids = Some(<<"display_300x250_image", "display_728x90_image">>)],
   [NoCriteria EXCEPT !.type = Some("display")],
   [NoCriteria EXCEPT !.type = Some("audio")],
   [NoCriteria EXCEPT !.max_width = Some(300)],
   [NoCriteria EXCEPT !.is_responsive = Some(FALSE)],
   [NoCriteria EXCEPT !.asset_types = Some(<<"image">>)]}

CallerLookupIds == {"display_300x250_generative", "display_300x250_image", "caller_added", "does_not_exist"}

(* the caller calls filter_formats and keeps the list it returns *)
CallerFilterCall ==
  /\ op = "idle"
  /\ \E c \in CallerCriteria :
       /\ op' = "filter"
       /\ crit' = c
       /\ results' = filter_formats_in(registry, c)
       /\ alias' = ~rebinds(c)
  /\ UNCHANGED <<format_id, found, registry>>
  /\ UNCHANGED other_calls

(* the caller appends to, removes from or reorders the list it holds; when that
   list is the registry list, the registry is what changes. The registry is changed
   at most once in a run. *)
CallerMutates ==
  /\ op = "filter"
  /\ alias => registry = STANDARD_FORMATS
  /\ \E how \in Mutations :
       /\ op' = "mutated"
       /\ results' = mutate(results, how)
       /\ registry' = IF alias THEN mutate(registry, how) ELSE registry
  /\ UNCHANGED <<crit, format_id, found, alias>>
  /\ UNCHANGED other_calls

(* a later filter_formats call *)
CallerFilterAgain ==
  /\ op = "mutated"
  /\ \E c \in CallerCriteria :
       /\ op' = "filter_again"
       /\ crit' = c
       /\ results' = filter_formats_in(registry, c)
       /\ alias' = ~rebinds(c)
  /\ UNCHANGED <<format_id, found, registry>>
  /\ UNCHANGED other_calls

(* a later get_format_by_id call *)
CallerLookup ==
  /\ op = "mutated"
  /\ \E id \in CallerLookupIds :
       /\ op' = "lookup_after"
       /\ format_id' = id
       /\ found' = get_format_by_id_in(registry, id)
  /\ UNCHANGED <<crit, results, registry, alias>>
  /\ UNCHANGED other_calls

(* the caller drops what it holds; the module keeps its list *)
CallerReturn ==
  /\ op # "idle"
  /\ op' = "idle"
  /\ crit' = NoCriteria
  /\ results' = <<>>
  /\ format_id' = ""
  /\ found' = None
  /\ alias' = FALSE
  /\ UNCHANGED registry
  /\ UNCHANGED other_calls

CallerNext ==
  \/ CallerFilterCall
  \/ CallerMutates
  \/ CallerFilterAgain
  \/ CallerLookup
  \/ CallerReturn

CallerSpec == Init /\ [][CallerNext]_vars

(* ------------------ calls interleaved on shared state ------------------ *)

(* the variables of the calls made one at a time *)
sequential_vars == <<op, crit, results, format_id, found, response, manifest, format_obj, validation, previous, supplied, url, outcome, request, reply, calls, uploads, manifest_json, mcp_response, build, alias>>

(* str(uuid.uuid4()) in the n-th call: no two calls get the same one *)
uuid4(n) == "uuid-" \o ToString(n)

ListCriteria ==
  {NoCriteria,
   [NoCriteria EXCEPT !.type = Some("display")],
   [NoCriteria EXCEPT !.format_ids = Some(<<"display_300x250_image", "display_728x90_image">>)]}

ValidateArgs ==
  {[manifest |-> DeclaredManifest(F_display_300x250_image), format_obj |-> Some(F_display_300x250_image)],
   [manifest |-> PyDict(<<<<"assets", PyDict(<<<<"extra", EmptyTextAsset>>, <<"banner_image", ScriptUrlImageAsset>>>>)>>>>), format_obj |-> Some(F_display_300x250_image)],
   [manifest |-> PyDict(<<<<"assets", PyList(<<ImageAsset>>)>>>>), format_obj |-> Some(F_native_standard)]}

PreviewArgs ==
  {[format_id |-> "display_300x250_image", creative_manifest |-> PyDict(<<<<"assets", PyDict(<<<<"banner_image", ImageAsset>>, <<"click_url", UrlAsset>>>>)>>>>), inputs |-> None],
   [format_id |-> "display_300x250_image", creative_manifest |-> PyDict(<<<<"assets", PyDict(<<<<"banner_image", ImageAsset>>, <<"click_url", UrlAsset>>>>)>>>>),
    inputs |-> Some(<<PyDict(<<<<"name", PyStr(<<"U", "S", " ", "D", "e", "s", "k", "t", "o", "p">>)>>, <<"macros", PyDict(<<<<"COUNTRY", PyStr(<<"U", "S">>)>>>>)>>>>), PyDict(<<<<"name", PyStr(<<"U", "K", " ", "M", "o", "b", "i", "l", "e">>)>>, <<"macros", PyDict(<<<<"COUNTRY", PyStr(<<"U", "K">>)>>>>)>>>>)>>)],
   [format_id |-> "display_728x90_image", creative_manifest |-> PyDict(<<<<"assets", PyDict(<<<<"banner_image", ImageAsset>>>>)>>>>), inputs |-> None],
   [format_id |-> "unknown_format_999", creative_manifest |-> PyDict(<<<<"assets", PyDict(<<<<"banner_image", ImageAsset>>>>)>>>>), inputs |-> None]}

(* the worker's record with its position, and what it holds, changed *)
at_pc(worker, pc, acc) == [worker EXCEPT !.pc = pc, !.acc = acc]

(* the worker's call is over with this result *)
done_with(worker, result) == [worker EXCEPT !.pc = "done", !.result = result]

(* s3.put_object: the object under the key is replaced *)
put_object(bucket, key, body) == {o \in bucket : o.key # key} \cup {[key |-> key, body |-> body]}

(* a request arrives at an idle worker *)
StartCall(w) ==
  /\ workers[w].pc = "idle"
  /\ started < MaxCalls
  /\ started' = started + 1
  /\ \/ \E c \in ListCriteria :
          workers' = [workers EXCEPT ![w] = [kind |-> "list_creative_formats", pc |-> "filter", call |-> started + 1, args |-> c, acc |-> <<>>, result |-> <<>>]]
     \/ \E a \in ValidateArgs :
          workers' = [workers EXCEPT ![w] = [kind |-> "validate_manifest_assets", pc |-> "required", call |-> started + 1, args |-> a, acc |-> <<>>, result |-> <<>>]]
     \/ \E a \in PreviewArgs :
          workers' = [workers EXCEPT ![w] = [kind |-> "preview_creative", pc |-> "lookup", call |-> started + 1, args |-> a, acc |-> <<>>, result |-> <<>>]]
  /\ UNCHANGED <<registry, storage>>
  /\ UNCHANGED sequential_vars

(* list_creative_formats: formats = filter_formats(...) reads the registry *)
ListFilterReversing(w) ==
  /\ workers[w].pc = "filter"
  /\ workers' = [workers EXCEPT ![w] = at_pc(workers[w], "respond", filter_formats_in(registry, workers[w].args))]
  /\ registry' = reversed(registry)
  /\ UNCHANGED <<storage, started>>
  /\ UNCHANGED sequential_vars

ListFilter(w) ==
  /\ workers[w].pc = "filter"
  /\ workers' = [workers EXCEPT ![w] = at_pc(workers[w], "respond", filter_formats_in(registry, workers[w].args))]
  /\ UNCHANGED <<registry, storage, started>>
  /\ UNCHANGED sequential_vars

(* list_creative_formats: the response is made of the formats, in order *)
ListRespond(w) ==
  /\ workers[w].kind = "list_creative_formats"
  /\ workers[w].pc = "respond"
  /\ workers' = [workers EXCEPT ![w] = done_with(workers[w], workers[w].acc)]
  /\ UNCHANGED <<registry, storage, started>>
  /\ UNCHANGED sequential_vars

(* validate_manifest_assets: the structural checks and the required-asset loop *)
ValidateRequired(w) ==
  /\ workers[w].pc = "required"
  /\ \E m \in {workers[w].args.manifest}, f \in {workers[w].args.format_obj} :
       workers' = [workers EXCEPT ![w] =
         IF ~isinstance_dict(m) THEN done_with(workers[w], Returned(<<StructuralError("Manifest must be a dictionary")>>))
         ELSE IF ~truthy(get(m, "assets")) THEN done_with(workers[w], Returned(<<StructuralError("Manifest must contain assets field")>>))
         ELSE IF ~isinstance_dict(get(m, "assets")) THEN done_with(workers[w], Returned(<<StructuralError("Manifest assets must be a dictionary")>>))
         ELSE at_pc(workers[w], "each", IF ~IsNone(f) /\ Len(f[1].assets_required) > 0
                               THEN check_required(f[1].assets_required, get(m, "assets"), 1, <<>>)
                               ELSE <<>>)]
  /\ UNCHANGED <<registry, storage, started>>
  /\ UNCHANGED sequential_vars

(* validate_manifest_assets: the per-asset loop and the return *)
ValidateEach(w) ==
  /\ workers[w].pc = "each"
  /\ workers' = [workers EXCEPT ![w] = done_with(workers[w], validate_each(get(workers[w].args.manifest, "assets"), 1, workers[w].acc))]
  /\ UNCHANGED <<registry, storage, started>>
  /\ UNCHANGED sequential_vars

(* preview_creative: get_format_by_id reads the registry; then the format ids are compared *)
PreviewLookup(w) ==
  /\ workers[w].pc = "lookup"
  /\ \E fmt \in {get_format_by_id_in(registry, FormatId(AGENT_URL, workers[w].args.format_id).id)}, manifest_format_id \in {get(workers[w].args.creative_manifest, "format_id")} :
       workers' = [workers EXCEPT ![w] =
         IF IsNone(fmt) THEN done_with(workers[w], ErrorResponse("Format {request.format_id} not found", <<>>))
         ELSE IF truthy(manifest_format_id) /\ normalize_format_id_for_comparison(manifest_format_id) # normalize_format_id_for_comparison(FormatId(AGENT_URL, workers[w].args.format_id))
         THEN done_with(workers[w], ErrorResponse("Manifest format_id '{manifest_format_id}' does not match request format_id '{request.format_id}'", <<>>))
         ELSE at_pc(workers[w], "validate", [fmt |-> fmt[1], preview_id |-> "", previews |-> <<>>])]
  /\ UNCHANGED <<registry, storage, started>>
  /\ UNCHANGED sequential_vars

(* preview_creative: the manifest is validated, then preview_id = str(uuid.uuid4()) *)
PreviewValidate(w) ==
  /\ workers[w].pc = "validate"
  /\ \E validation_errors \in {validate_manifest_assets(workers[w].args.creative_manifest, Some(workers[w].acc.fmt))} :
       workers' = [workers EXCEPT ![w] =
         IF validation_errors.kind # "return" THEN done_with(workers[w], ErrorResponse("Preview generation failed: {e}", <<>>))
         ELSE IF Len(validation_errors.errors) > 0 THEN done_with(workers[w], ErrorResponse("Asset validation failed", validation_errors.errors))
         ELSE at_pc(workers[w], "upload", [workers[w].acc EXCEPT !.preview_id = uuid4(workers[w].call)])]
  /\ UNCHANGED <<registry, storage, started>>
  /\ UNCHANGED sequential_vars

(* preview_creative: one turn of the loop over request.inputs: the page is
   generated and put into the bucket, the preview is appended *)
PreviewUpload(w) ==
  /\ workers[w].pc = "upload"
  /\ Len(workers[w].acc.previews) < Len(request_inputs(workers[w].args.inputs))
  /\ \E input_set \in {request_inputs(workers[w].args.inputs)[Len(workers[w].acc.previews) + 1]} :
     \E key \in {preview_key(workers[w].acc.preview_id, replace_char(lower(input_set.name), " ", "-"))} :
       /\ storage' = put_object(storage, key, generate_preview_html(workers[w].acc.fmt, workers[w].args.creative_manifest, input_set))
       /\ workers' = [workers EXCEPT ![w] = at_pc(workers[w], "upload", [workers[w].acc EXCEPT !.previews = Append(workers[w].acc.previews, _generate_preview_variant(input_set, workers[w].acc.preview_id, key))])]
  /\ UNCHANGED <<registry, started>>
  /\ UNCHANGED sequential_vars

(* preview_creative: the loop is over, the response is returned *)
PreviewRespond(w) ==
  /\ workers[w].pc = "upload"
  /\ Len(workers[w].acc.previews) = Len(request_inputs(workers[w].args.inputs))
  /\ workers' = [workers EXCEPT ![w] = done_with(workers[w], PreviewResponse(workers[w].acc.previews, workers[w].acc.preview_id))]
  /\ UNCHANGED <<registry, storage, started>>
  /\ UNCHANGED sequential_vars

(* the response is sent; the worker is free for the next request *)
WorkerReturn(w) ==
  /\ workers[w].pc = "done"
  /\ workers' = [workers EXCEPT ![w] = IdleWorker]
  /\ UNCHANGED <<registry, storage, started>>
  /\ UNCHANGED sequential_vars

ConcurrentNext ==
  \E w \in Workers :
    \/ StartCall(w)
    \/ ListFilter(w) \/ ListRespond(w)
    \/ ValidateRequired(w) \/ ValidateEach(w)
    \/ PreviewLookup(w) \/ PreviewValidate(w) \/ PreviewUpload(w) \/ PreviewRespond(w)
    \/ WorkerReturn(w)

ConcurrentSpec == Init /\ [][ConcurrentNext]_vars
(* ------------------------------ properties ------------------------------ *)

BoundFields == {"max_width", "max_height", "min_width", "min_height"}

(* the criteria c restricted to the fields of A *)
Restrict(c, A) == [f \in CriteriaFields |-> IF f \in A THEN c[f] ELSE None]

(* the elements of s that also occur in t, in the order of s *)
Intersection(s, t) == SelectSeq(s, LAMBDA x : x \in Range(t))

(* "WxH" for two non-negative ints *)
DimensionsString(w, h) == str(w) \o <<"x">> \o str(h)

(* C1: whenever at least one of max_width, max_height, min_width, min_height is
   given, with any integer value and whatever the other criteria, no returned
   format lacks an explicit width and height. *)
C1_BoundsExcludeDimensionless ==
  (op = "filter" /\ Supplied(crit) \cap BoundFields # {})
    => \A i \in 1..Len(results) : ~IsNone(get_dimensions(results[i]))

(* C2: filter_formats without criteria returns every format of the registry, the
   same elements in definition order, the dimensionless audio formats included. *)
C2_NoCriteriaReturnsRegistry ==
  (op = "filter" /\ Supplied(crit) = {})
    => /\ results = STANDARD_FORMATS
       /\ \A i \in 1..Len(AUDIO_FORMATS) : AUDIO_FORMATS[i] \in Range(results)

C2_Witness ==
  /\ op = "filter" /\ Supplied(crit) = {}
  /\ \E i \in 1..Len(results) :
       results[i].type = "audio" /\ IsNone(get_dimensions(results[i]))

(* C3: filter_formats(dimensions="WxH") returns exactly the registry formats whose
   declared width is W and declared height is H, in registry order; hence none
   without dimensions. *)
C3_ExactDimensions ==
  (op = "filter" /\ Supplied(crit) = {"dimensions"})
    => LET parts == split(crit.dimensions[1], "x")
           w == int(parts[1])
           h == int(parts[2])
       IN (/\ Len(parts) = 2 /\ ~IsNone(w) /\ ~IsNone(h)
           /\ w[1] >= 0 /\ h[1] >= 0
           /\ crit.dimensions[1] = DimensionsString(w[1], h[1]))
            => results = SelectSeq(STANDARD_FORMATS,
                                   LAMBDA fmt : get_dimensions(fmt) = <<w[1], h[1]>>)

C3_Witness ==
  /\ op = "filter" /\ Supplied(crit) = {"dimensions"}
  /\ crit.dimensions[1] = DimensionsString(970, 250)
  /\ Len(results) > 1

(* C4: with only dimension bounds supplied, a format of declared width w and height
   h is returned if and only if w and h satisfy every supplied bound, inclusively. *)
C4_BoundsIffWithin ==
  (op = "filter" /\ Supplied(crit) \subseteq BoundFields)
    => \A i \in 1..Len(STANDARD_FORMATS) :
         LET fmt == STANDARD_FORMATS[i]
             d == get_dimensions(fmt)
         IN ~IsNone(d)
              => (fmt \in Range(results)
                    <=> /\ (~IsNone(crit.min_width) => crit.min_width[1] <= d[1])
                        /\ (~IsNone(crit.max_width) => d[1] <= crit.max_width[1])
                        /\ (~IsNone(crit.min_height) => crit.min_height[1] <= d[2])
                        /\ (~IsNone(crit.max_height) => d[2] <= crit.max_height[1]))

(* C5: filter_formats(asset_types=S) returns exactly the formats whose
   assets_required holds, for every type of S, a requirement of that type. *)
C5_AssetTypesAll ==
  (op = "filter" /\ Supplied(crit) = {"asset_types"})
    => results = SelectSeq(STANDARD_FORMATS, LAMBDA fmt :
                   \A t \in Range(crit.asset_types[1]) :
                     \E r \in 1..Len(fmt.assets_required) :
                       fmt.assets_required[r].asset_type = t)

C5_Witness ==
  /\ op = "filter" /\ Supplied(crit) = {"asset_types"}
  /\ crit.asset_types[1] = <<"image", "url">>
  /\ \E i \in 1..Len(results) :
       \E r \in 1..Len(results[i].assets_required) :
         results[i].assets_required[r].asset_type = "text"
  /\ F_native_standard \notin Range(results)

(* C6: filter_formats(type=t) returns exactly the registry formats of type t, and
   the result is not empty for display, video, audio, native and dooh. *)
C6_TypeExact ==
  (op = "filter" /\ Supplied(crit) = {"type"} /\ crit.type[1] # "")
    => /\ results = SelectSeq(STANDARD_FORMATS, LAMBDA fmt : fmt.type = crit.type[1])
       /\ crit.type[1] \in {"display", "video", "audio", "native", "dooh"}
            => Len(results) > 0

C6_Witness ==
  /\ op = "filter" /\ Supplied(crit) = {"type"} /\ crit.type[1] = "dooh"
  /\ Len(results) > 0

(* C7: get_format_by_id returns f itself for the format_id of every registry
   format f (so the format_id values are pairwise distinct), and None for an id
   that no registry format carries. *)
C7_LookupTotal ==
  op = "lookup"
    => /\ \A i \in 1..Len(STANDARD_FORMATS) :
            STANDARD_FORMATS[i].format_id = format_id
              => found = Some(STANDARD_FORMATS[i])
       /\ (\A i \in 1..Len(STANDARD_FORMATS) : STANDARD_FORMATS[i].format_id # format_id)
            => (found = None /\ response.status = 404)
       /\ \A i, j \in 1..Len(STANDARD_FORMATS) :
            i # j => STANDARD_FORMATS[i].format_id # STANDARD_FORMATS[j].format_id

C7_Witness ==
  /\ op = "lookup" /\ format_id = "dooh_transit_screen"
  /\ found = Some(F_dooh_transit_screen)

(* C8: the criteria are ANDed and the order of the passes is irrelevant: for any
   split of the supplied criteria into two sets over distinct fields, the result
   is the intersection of the two separate results, in registry order. *)
C8_Composition ==
  op = "filter"
    => \A A \in SUBSET Supplied(crit) :
         results = Intersection(filter_formats(Restrict(crit, A)),
                                filter_formats(Restrict(crit, Supplied(crit) \ A)))

(* the formats that can pass some dimension-bound filter *)
PassesSomeBound(fmt) ==
  \E w \in {0 - 1, 100000} :
    \/ fmt \in Range(filter_formats([NoCriteria EXCEPT !.max_width = Some(w)]))
    \/ fmt \in Range(filter_formats([NoCriteria EXCEPT !.min_width = Some(w)]))

(* C9: is_responsive=true returns exactly the formats without fixed dimensions and
   is_responsive=false exactly those with fixed dimensions; the two results are
   disjoint and cover the registry, and the is_responsive=false result is the set
   of formats that can pass some dimension-bound filter. *)
C9_ResponsivePartition ==
  (op = "filter" /\ Supplied(crit) = {"is_responsive"})
    => LET other == filter_formats(
                      [NoCriteria EXCEPT !.is_responsive = Some(~crit.is_responsive[1])])
           fixed == SelectSeq(STANDARD_FORMATS, LAMBDA fmt : ~IsNone(get_dimensions(fmt)))
           fluid == SelectSeq(STANDARD_FORMATS, LAMBDA fmt : IsNone(get_dimensions(fmt)))
       IN /\ results = (IF crit.is_responsive[1] THEN fluid ELSE fixed)
          /\ Range(results) \cap Range(other) = {}
          /\ Range(results) \cup Range(other) = Range(STANDARD_FORMATS)
          /\ ~crit.is_responsive[1]
               => Range(results) = {fmt \in Range(STANDARD_FORMATS) : PassesSomeBound(fmt)}

C9_Witness ==
  /\ op = "filter" /\ Supplied(crit) = {"is_responsive"}
  /\ crit.is_responsive = Some(FALSE)
  /\ F_dooh_billboard_1920x1080 \in Range(results)
  /\ F_dooh_billboard_landscape \notin Range(results)

(* the number of entries of the error list that report asset_id as missing *)
MissingCount(errors, asset_id) ==
  Cardinality({i \in 1..Len(errors) :
                 /\ errors[i].text = "Missing required {asset_type} asset: '{asset_id}'"
                 /\ errors[i].asset_id = asset_id})

(* C10: validating a manifest whose assets field is a mapping against a format
   reports exactly one missing-required-asset error, naming the asset id, for each
   requirement with required=true whose asset_id is absent from manifest.assets,
   none for an absent optional requirement or a present asset id, and the failing
   assets that are present are reported as well.  Stated for the calls that
   return their error list. *)
C10_MissingRequiredReported ==
  (/\ op = "validate" /\ validation.kind = "return" /\ ~IsNone(format_obj)
   /\ isinstance_dict(manifest) /\ isinstance_dict(get(manifest, "assets")))
    => LET assets == get(manifest, "assets")
           reqs == format_obj[1].assets_required
       IN /\ \A r \in 1..Len(reqs) :
               MissingCount(validation.errors, reqs[r].asset_id)
                 = IF reqs[r].required /\ ~has_key(assets, reqs[r].asset_id) THEN 1 ELSE 0
          /\ \A i \in 1..Len(assets.v) :
               validate_asset(assets.v[i][2]).kind = "AssetValidationError"
                 => \E k \in 1..Len(validation.errors) :
                      validation.errors[k]
                        = AssetError(assets.v[i][1], validate_asset(assets.v[i][2]).message)


(* C11: round trip on required assets: when validating a manifest reported asset
   id a as a missing required asset, validating it again with a well-formed asset
   of the required type added under a returns an error list without that error,
   and the empty list when the missing asset was the only problem. *)
C11_RoundTrip ==
  op = "revalidate"
    => /\ validation.kind = "return"
       /\ supplied \notin missing_asset_ids(validation.errors)
       /\ (Len(previous.errors) = 1 => validation.errors = <<>>)

(* the structural errors of validate_manifest_assets *)
StructuralErrors ==
  {StructuralError("Manifest must be a dictionary"),
   StructuralError("Manifest must contain assets field"),
   StructuralError("Manifest assets must be a dictionary")}

(* C12: when the manifest is not a mapping, or has no assets field, or its assets
   field is not a mapping (a list, say), validate_manifest_assets returns exactly
   one error, a structural one: no required asset is reported missing and no
   asset is validated, whatever the format requires and the field holds. *)
C12_StructuralErrorOnly ==
  (/\ op = "validate"
   /\ \/ ~isinstance_dict(manifest)
      \/ ~has_key(manifest, "assets")
      \/ ~isinstance_dict(get(manifest, "assets")))
    => /\ validation.kind = "return"
       /\ Len(validation.errors) = 1
       /\ validation.errors[1] \in StructuralErrors

C12_Witness ==
  /\ op = "validate"
  /\ manifest = AssetsListManifest
  /\ format_obj = Some(F_display_300x250_image)
  /\ validation = Returned(<<StructuralError("Manifest assets must be a dictionary")>>)

(* C13: validate_manifest_assets never raises: for every manifest and every asset
   value it returns a list of errors. *)
C13_NeverRaises ==
  op = "validate" => validation.kind = "return"

(* the asset_type of a requirement as the characters a manifest spells it with *)
AssetTypeChars(asset_type) ==
  CASE asset_type = "image" -> <<"i", "m", "a", "g", "e">>
    [] asset_type = "url" -> <<"u", "r", "l">>
    [] asset_type = "text" -> <<"t", "e", "x", "t">>
    [] asset_type = "video" -> <<"v", "i", "d", "e", "o">>
    [] asset_type = "audio" -> <<"a", "u", "d", "i", "o">>
    [] asset_type = "html" -> <<"h", "t", "m", "l">>
    [] asset_type = "brand_manifest" -> <<"b", "r", "a", "n", "d", "_", "m", "a", "n", "i", "f", "e", "s", "t">>

(* the entries i of the assets mapping and requirements r of the format such that
   the asset is present under the requirement's asset_id and declares another
   asset_type than the requirement *)
TypeMismatches ==
  IF /\ op = "validate" /\ validation.kind = "return" /\ ~IsNone(format_obj)
     /\ isinstance_dict(manifest) /\ isinstance_dict(get(manifest, "assets"))
  THEN LET assets == get(manifest, "assets")
           reqs == format_obj[1].assets_required
       IN {p \in (1..Len(assets.v)) \X (1..Len(reqs)) :
             /\ assets.v[p[1]][1] = reqs[p[2]].asset_id
             /\ isinstance_dict(assets.v[p[1]][2])
             /\ isinstance_str(get(assets.v[p[1]][2], "asset_type"))
             /\ ~eq_str(get(assets.v[p[1]][2], "asset_type"),
                        AssetTypeChars(reqs[p[2]].asset_type))}
  ELSE {}

(* the errors of the list that name asset_id, in order *)
ErrorsFor(errors, asset_id) == SelectSeq(errors, LAMBDA e : e.asset_id = asset_id)

(* C14 as stated: an asset present under a required asset_id with another declared
   asset_type than the requirement's is reported with an error for that asset_id,
   so the manifest is not accepted with zero errors. *)
C14_TypeMismatchReported ==
  \A p \in TypeMismatches :
    ErrorsFor(validation.errors, get(manifest, "assets").v[p[1]][1]) # <<>>

(* C14 amended: an asset present under a required asset_id with another declared
   asset_type than the requirement's gets no error for the mismatch: it is checked
   by the validator of its own declared type only, so the errors for that asset_id
   are exactly that validator's failure, if it fails. *)
C14_TypeMismatchIgnored ==
  \A p \in TypeMismatches :
    LET entry == get(manifest, "assets").v[p[1]]
        own == validate_asset(entry[2])
    IN ErrorsFor(validation.errors, entry[1])
         = IF own.kind = "ok" THEN <<>> ELSE <<AssetError(entry[1], own.message)>>

C14_Witness ==
  /\ TypeMismatches # {}
  /\ format_obj = Some(F_display_300x250_image)
  /\ has_key(get(manifest, "assets"), "banner_image")
  /\ get(get(manifest, "assets"), "banner_image") = UrlAsset
  /\ validation = Returned(<<>>)

(* the host of a network location: what follows the last "@", up to the first ":" *)
Host(netloc) ==
  LET ats == {i \in 1..Len(netloc) : netloc[i] = "@"}
      hostinfo == IF ats = {} THEN netloc
                  ELSE SubSeq(netloc, (CHOOSE i \in ats : \A j \in ats : j <= i) + 1, Len(netloc))
  IN IF find(hostinfo, ":") = 0 THEN hostinfo ELSE SubSeq(hostinfo, 1, find(hostinfo, ":") - 1)

(* an absolute URL with scheme http or https and a non-empty host *)
HttpWithHost(u) ==
  LET parsed == urlparse(u.v)
  IN /\ ~parsed.error
     /\ parsed.scheme \in {<<"h", "t", "t", "p">>, <<"h", "t", "t", "p", "s">>}
     /\ Len(Host(parsed.netloc)) > 0

(* a string beginning, in any letter case, with one of the dangerous schemes *)
Dangerous(u) ==
  /\ isinstance_str(u)
  /\ \E p \in {<<"j", "a", "v", "a", "s", "c", "r", "i", "p", "t", ":">>, <<"v", "b", "s", "c", "r", "i", "p", "t", ":">>, <<"f", "i", "l", "e", ":">>, <<"a", "b", "o", "u", "t", ":">>} : startswith(lower(u.v), p)

(* the assets of the validated manifest that have a type carrying a URL and carry
   a dangerous one *)
DangerousCarriers ==
  IF /\ op \in {"validate", "revalidate"}
     /\ isinstance_dict(manifest) /\ isinstance_dict(get(manifest, "assets"))
  THEN {i \in 1..Len(get(manifest, "assets").v) :
          LET asset == get(manifest, "assets").v[i][2]
          IN /\ isinstance_dict(asset)
             /\ \E t \in UrlAssetTypes : eq_str(get(asset, "asset_type"), t)
             /\ Dangerous(get(asset, "url"))}
  ELSE {}

(* C19: validate_url accepts a string only if it is an absolute http or https URL
   with a non-empty host or a data:image/ URI that passes the data-URI rule; it
   rejects every string beginning, in any letter case, with javascript:,
   vbscript:, file: or about:; and a manifest with a url, image, video or audio
   asset carrying such a URL is never accepted: the asset is reported. *)
C19_UrlSafety ==
  /\ (op = "validate_url" /\ outcome.kind = "ok")
       => \/ HttpWithHost(url)
          \/ /\ startswith(lower(url.v), <<"d", "a", "t", "a", ":", "i", "m", "a", "g", "e", "/">>)
             /\ validate_data_uri(url).kind = "ok"
  /\ (op = "validate_url" /\ Dangerous(url)) => outcome.kind = "AssetValidationError"
  /\ \A i \in DangerousCarriers :
       \/ validation.kind # "return"
       \/ ErrorsFor(validation.errors, get(manifest, "assets").v[i][1]) # <<>>

(* the MIME type a data URI declares: what stands between "data:" and the first
   ";" of the header *)
DeclaredMime(uri) ==
  LET header == SubSeq(uri.v, 1, find(uri.v, ",") - 1)
  IN split(SubSeq(header, Len(<<"d", "a", "t", "a", ":">>) + 1, Len(header)), ";")[1]

(* the length of what follows the first comma *)
PayloadLength(uri) == Len(uri.v) - find(uri.v, ",") + fill(uri)

(* C20: validate_data_uri accepts a URI exactly when it starts with data:, contains
   a comma, declares one of the allow-listed image MIME types and its payload,
   what follows the first comma, is at most 10 * 1024 * 1024 characters long: a
   payload of exactly that length is accepted, one more character is rejected,
   and text/html is rejected whatever the size. *)
C20_DataUriRule ==
  op = "validate_data_uri"
    => (outcome.kind = "ok"
          <=> /\ startswith(url.v, <<"d", "a", "t", "a", ":">>)
              /\ find(url.v, ",") > 0
              /\ DeclaredMime(url) \in allowed_image_mimes
              /\ PayloadLength(url) <= 10 * 1024 * 1024)

(* ------------------------- preview_creative claims ----------------------- *)

(* the format_id of the manifest of the request *)
ManifestFormatId == get(request.creative_manifest, "format_id")

(* the asset ids of the manifest of the request, when its assets are a mapping *)
RequestAssetIds ==
  LET assets == get(request.creative_manifest, "assets")
  IN IF isinstance_dict(assets) THEN {assets.v[i][1] : i \in 1..Len(assets.v)} ELSE {}

(* the manifest of the request has the wire shape: format_id is the plain string
   that names the format, assets is a mapping *)
WireShape ==
  /\ ManifestFormatId = PyStr(chars(request.format_id))
  /\ isinstance_dict(get(request.creative_manifest, "assets"))

(* the request carries both assets of display_300x250_image, each valid *)
BothValidAssets ==
  /\ get(request.creative_manifest, "assets")
       = PyDict(<<<<"banner_image", ImageAsset>>, <<"click_url", UrlAsset>>>>)

(* the same manifest without click_url *)
WithoutClickUrl ==
  get(request.creative_manifest, "assets") = PyDict(<<<<"banner_image", ImageAsset>>>>)

(* a call for display_300x250_image without input variants whose uploads succeed *)
EndToEndCall ==
  /\ op = "preview_creative"
  /\ request.format_id = "display_300x250_image"
  /\ IsNone(request.inputs)
  /\ request.failing = 0

(* the names of the inputs the previews echo, in order *)
PreviewNames == [i \in 1..Len(reply.previews) |-> reply.previews[i].input.name]

(* C15: through preview_creative for display_300x250_image, a manifest in the wire
   shape with both valid assets and no input variants yields exactly the three
   previews Desktop, Mobile, Tablet and no validation error; the same manifest
   without click_url yields exactly one missing-required-asset error and no
   preview. *)
C15_EndToEnd ==
  (EndToEndCall /\ WireShape)
    => /\ BothValidAssets
            => /\ reply.kind = "previews"
               /\ PreviewNames = <<<<"D", "e", "s", "k", "t", "o", "p">>, <<"M", "o", "b", "i", "l", "e">>, <<"T", "a", "b", "l", "e", "t">>>>
               /\ reply.validation_errors = <<>>
       /\ WithoutClickUrl
            => /\ reply.kind = "error"
               /\ Len(reply.validation_errors) = 1
               /\ missing_asset_ids(reply.validation_errors) = {"click_url"}
               /\ reply.previews = <<>>
               /\ uploads = <<>>

(* the same scenario with the format_id written as a dumped FormatId object *)
C15_EndToEndDumped ==
  (EndToEndCall /\ ManifestFormatId = FormatIdDict(AGENT_URL, <<"d", "i", "s", "p", "l", "a", "y", "_", "3", "0", "0", "x", "2", "5", "0", "_", "i", "m", "a", "g", "e">>))
    => /\ BothValidAssets
            => /\ reply.kind = "previews"
               /\ PreviewNames = <<<<"D", "e", "s", "k", "t", "o", "p">>, <<"M", "o", "b", "i", "l", "e">>, <<"T", "a", "b", "l", "e", "t">>>>
               /\ reply.validation_errors = <<>>
       /\ WithoutClickUrl
            => /\ reply.kind = "error"
               /\ Len(reply.validation_errors) = 1
               /\ missing_asset_ids(reply.validation_errors) = {"click_url"}
               /\ reply.previews = <<>>
               /\ uploads = <<>>

C15_DumpedReached ==
  /\ EndToEndCall /\ ManifestFormatId = FormatIdDict(AGENT_URL, <<"d", "i", "s", "p", "l", "a", "y", "_", "3", "0", "0", "x", "2", "5", "0", "_", "i", "m", "a", "g", "e">>)
  /\ BothValidAssets
  /\ Len(reply.previews) = 3

(* the input dicts of the request: <<>> when none is supplied *)
SuppliedInputs == IF IsNone(request.inputs) THEN <<>> ELSE request.inputs[1]

(* the DEVICE_TYPE macro alone, with value v *)
DeviceTypeOnly(v) == PyDict(<<<<"DEVICE_TYPE", PyStr(v)>>>>)

(* preview i and upload i belong together: the render of the preview points at the
   uploaded object, whose page is labelled with the name the preview echoes *)
Paired(i) ==
  /\ Len(reply.previews[i].renders) = 1
  /\ reply.previews[i].renders[1].preview_url = uploads[i].key
  /\ uploads[i].body.label = reply.previews[i].input.name
  /\ reply.previews[i].preview_id = reply.preview_id

(* C16: a successful preview_creative has made exactly one preview and exactly one
   upload per input variant, in the order of the supplied inputs, each preview
   echoing the name and the macros of its own input; without supplied inputs the
   variants are exactly Desktop, Mobile, Tablet, in that order, and differ only in
   the DEVICE_TYPE macro. *)
C16_OnePreviewPerInput ==
  (op = "preview_creative" /\ reply.kind = "previews")
    => /\ Len(uploads) = Len(reply.previews)
       /\ \A i \in 1..Len(reply.previews) : Paired(i)
       /\ Len(SuppliedInputs) > 0
            => /\ Len(reply.previews) = Len(SuppliedInputs)
               /\ \A i \in 1..Len(SuppliedInputs) :
                    /\ PyStr(reply.previews[i].input.name) = get(SuppliedInputs[i], "name")
                    /\ reply.previews[i].input.macros = get(SuppliedInputs[i], "macros")
       /\ Len(SuppliedInputs) = 0
            => /\ PreviewNames = <<<<"D", "e", "s", "k", "t", "o", "p">>, <<"M", "o", "b", "i", "l", "e">>, <<"T", "a", "b", "l", "e", "t">>>>
               /\ [i \in 1..3 |-> reply.previews[i].input.macros]
                    = <<DeviceTypeOnly(<<"d", "e", "s", "k", "t", "o", "p">>), DeviceTypeOnly(<<"m", "o", "b", "i", "l", "e">>),
                        DeviceTypeOnly(<<"t", "a", "b", "l", "e", "t">>)>>
               /\ \A i \in 1..3 :
                    /\ uploads[i].body.image_url = uploads[1].body.image_url
                    /\ uploads[i].body.click_url = uploads[1].body.click_url

(* two different inputs were supplied and both previews came back *)
C16_Witness ==
  /\ op = "preview_creative" /\ reply.kind = "previews"
  /\ Len(SuppliedInputs) = 2
  /\ PreviewNames = <<<<"U", "S", " ", "D", "e", "s", "k", "t", "o", "p">>, <<"U", "K", " ", "M", "o", "b", "i", "l", "e">>>>
  /\ Len(uploads) = 2

(* no inputs were supplied and the three default previews came back *)
C16_DefaultsReached ==
  /\ op = "preview_creative" /\ reply.kind = "previews"
  /\ IsNone(request.inputs)
  /\ Len(uploads) = 3

(* an upload failed: the uploads before it were made, no preview is returned *)
C16_FailFast ==
  (op = "preview_creative" /\ request.failing > 0 /\ uploads # <<>>)
    => /\ reply.kind = "error"
       /\ reply.error = "Preview generation failed: {e}"
       /\ Len(uploads) = request.failing - 1

(* the inputs of the request are accepted: each is a dict with a name *)
InputsAccepted == \A i \in 1..Len(SuppliedInputs) : is_preview_input(SuppliedInputs[i])

(* check 1: the format of the request is in the registry *)
LookupSucceeds == \E i \in 1..Len(STANDARD_FORMATS) : STANDARD_FORMATS[i].format_id = request.format_id

(* check 2: the manifest names no format, or names the format of the request at
   this agent *)
FormatIdsMatch ==
  \/ ~truthy(ManifestFormatId)
  \/ /\ isinstance_dict(ManifestFormatId)
     /\ get_default(ManifestFormatId, "id", PyStr(<<>>)) = PyStr(chars(request.format_id))
     /\ get_default(ManifestFormatId, "agent_url", PyStr(<<>>)) = PyStr(AGENT_URL)

(* check 3: the validation of the manifest against the format returns no error *)
ValidationSucceeds ==
  /\ LookupSucceeds
  /\ validate_manifest_assets(request.creative_manifest, get_format_by_id(request.format_id))
       = Returned(<<>>)

(* an asset was inspected, a preview was generated or an object was uploaded *)
AssetsInspected == \E i \in 1..Len(calls) : calls[i] = "validate_manifest_assets"

PreviewStarted ==
  \/ \E i \in 1..Len(calls) :
       calls[i] \in {"generate_preview_html", "upload_preview_html", "_generate_preview_variant"}
  \/ uploads # <<>>
  \/ reply.previews # <<>>

(* the manifest of the request carries a javascript: URL in its banner_image *)
ScriptUrlCarried ==
  get(request.creative_manifest, "assets")
    = PyDict(<<<<"banner_image", ScriptUrlImageAsset>>, <<"click_url", UrlAsset>>>>)

(* C17: in preview_creative the checks run in the order format lookup, format-id
   match, manifest validation, and each failure ends the call: an unknown format_id
   of the request is reported before any asset is inspected, a manifest format_id
   that differs from the request's is reported before any asset is inspected, and
   no preview is generated and nothing is uploaded unless all three checks have
   succeeded. *)
C17_CheckOrder ==
  (op = "preview_creative" /\ InputsAccepted)
    => /\ ~LookupSucceeds
            => /\ reply.kind = "error"
               /\ reply.error = "Format {request.format_id} not found"
               /\ calls = <<"get_format_by_id">>
       /\ (LookupSucceeds /\ ~FormatIdsMatch)
            => /\ reply.kind = "error"
               /\ reply.error = "Manifest format_id '{manifest_format_id}' does not match request format_id '{request.format_id}'"
               /\ calls = <<"get_format_by_id">>
       /\ AssetsInspected => (LookupSucceeds /\ FormatIdsMatch)
       /\ (LookupSucceeds /\ FormatIdsMatch /\ ~ValidationSucceeds)
            => /\ reply.kind = "error"
               /\ calls = <<"get_format_by_id", "validate_manifest_assets">>
       /\ PreviewStarted => (LookupSucceeds /\ FormatIdsMatch /\ ValidationSucceeds)
       /\ ~AssetsInspected => ~PreviewStarted

(* the manifest names another format and carries a javascript: URL: the mismatch is
   reported and the assets were not inspected *)
C17_Witness ==
  /\ op = "preview_creative" /\ InputsAccepted
  /\ LookupSucceeds /\ ~FormatIdsMatch
  /\ ScriptUrlCarried
  /\ ~AssetsInspected
  /\ reply.kind = "error"

(* the format of the request is unknown and the manifest carries a javascript: URL *)
C17_UnknownReached ==
  /\ op = "preview_creative" /\ InputsAccepted
  /\ ~LookupSucceeds
  /\ ScriptUrlCarried
  /\ calls = <<"get_format_by_id">>

(* all three checks succeeded and the previews were uploaded *)
C17_AllPassedReached ==
  /\ op = "preview_creative"
  /\ LookupSucceeds /\ FormatIdsMatch /\ ValidationSucceeds
  /\ PreviewStarted /\ uploads # <<>>

(* --------------------------- boundary claims ----------------------------- *)

(* the text of the last mcp_server call is not JSON *)
MalformedText == ~json_loads(chars(manifest_json)).ok

(* the text is JSON of a value that is not an object *)
NonObjectText ==
  json_loads(chars(manifest_json)).ok /\ ~isinstance_dict(json_loads(chars(manifest_json)).value)

(* the response of server.py's preview_creative is structured: previews, or an
   error that says what failed *)
ServerStructured ==
  \/ reply.kind = "previews"
  \/ reply.kind = "error" /\ reply.error # ""

(* the response of mcp_server.py's preview_creative is structured: a success, or
   an error response that lists at least one typed error *)
McpStructured ==
  \/ mcp_response.kind = "success"
  \/ /\ mcp_response.kind = "error"
     /\ Len(mcp_response.errors) > 0
     /\ \A i \in 1..Len(mcp_response.errors) : mcp_response.errors[i].type # ""

(* C18: every call of preview_creative, at server.py and at mcp_server.py, returns
   a structured response for any input, a text that is not JSON and JSON of a value
   that is not an object included: no exception leaves the call, and a text that is
   not JSON yields exactly one json_syntax_error and nothing else. *)
C18_BoundaryStructured ==
  /\ op = "preview_creative" => ServerStructured
  /\ op = "mcp_preview_creative"
       => /\ McpStructured
          /\ MalformedText
               => mcp_response.errors = <<ValidationError("/", "json_syntax_error")>>

(* the same for every text but the JSON of a value that is not an object *)
C18_StructuredButNonObjects ==
  /\ op = "preview_creative" => ServerStructured
  /\ (op = "mcp_preview_creative" /\ ~NonObjectText)
       => /\ McpStructured
          /\ MalformedText
               => mcp_response.errors = <<ValidationError("/", "json_syntax_error")>>

(* JSON of a value that is not an object: AttributeError leaves the call *)
C18_NonObjectEscapes ==
  (op = "mcp_preview_creative" /\ NonObjectText) => mcp_response.kind = "AttributeError"

C18_MalformedReached ==
  /\ op = "mcp_preview_creative" /\ MalformedText
  /\ mcp_response.errors = <<ValidationError("/", "json_syntax_error")>>

(* the assets checks of mcp_server.py: assets absent, null or not a mapping gives
   exactly one error at /assets and no error of a required asset *)
C12_McpAssetsStructure ==
  LET manifest_obj == json_loads(chars(manifest_json)).value
  IN (/\ op = "mcp_preview_creative"
      /\ ~MalformedText /\ ~NonObjectText
      /\ isinstance_str(get(manifest_obj, "format_id"))
      /\ ~IsNone(get_format_by_id(join(get(manifest_obj, "format_id").v)))
      /\ ~isinstance_dict(get(manifest_obj, "assets")))
       => /\ mcp_response.kind = "error"
          /\ Len(mcp_response.errors) = 1
          /\ mcp_response.errors[1].path = "/assets"
          /\ mcp_response.errors[1].type \in {"missing_required_field", "invalid_type"}

C12_McpReached ==
  /\ op = "mcp_preview_creative"
  /\ mcp_response.errors = <<ValidationError("/assets", "invalid_type")>>

(* ======================= registry integrity and build ================== *)

(* the ids a registry format lists as its output formats *)
OutputIds(fmt) == IF IsNone(fmt.output_format_ids) THEN <<>> ELSE fmt.output_format_ids[1]

(* C21: every id listed in the output_format_ids of a registry format is the
   format_id of another format of the registry, and a build_creative call for a
   registry format never ends with "Output format ... not found". *)
C21_OutputFormatsResolve ==
  /\ \A i \in 1..Len(STANDARD_FORMATS) :
       \A k \in 1..Len(OutputIds(STANDARD_FORMATS[i])) :
         \E j \in 1..Len(STANDARD_FORMATS) :
           /\ j # i
           /\ STANDARD_FORMATS[j].format_id = OutputIds(STANDARD_FORMATS[i])[k]
  /\ op = "build_creative" =>
       build[2].error # "Output format {fmt.output_format_ids[0]} not found"

(* a build of a generative format reached generation with its output format resolved *)
C21_Witness ==
  /\ op = "build_creative"
  /\ build[1].format_id = "display_300x250_generative"
  /\ build[2].kind = "generate"
  /\ build[2].output_format_id = "display_300x250_image"

(* ===================== the order of the validation errors ============== *)

IsMissingError(e) == e.text = "Missing required {asset_type} asset: '{asset_id}'"

IsAssetError(e) == e.text = "Asset '{asset_id}': {e}"

(* the asset ids the entries of an error list name, in the list's order *)
ErrorIds(errors) == [i \in 1..Len(errors) |-> errors[i].asset_id]

(* the asset ids of format.assets_required in declaration order *)
DeclaredIds == IF IsNone(format_obj) THEN <<>> ELSE [i \in 1..Len(format_obj[1].assets_required) |-> format_obj[1].assets_required[i].asset_id]

(* the keys of manifest.assets in iteration order *)
AssetKeys == IF isinstance_dict(manifest) /\ isinstance_dict(get(manifest, "assets")) THEN [i \in 1..Len(get(manifest, "assets").v) |-> get(manifest, "assets").v[i][1]] ELSE <<>>

(* the elements of ids that occur in sub, in the order of ids *)
OrderedBy(ids, sub) == SelectSeq(ids, LAMBDA id : \E k \in 1..Len(sub) : sub[k] = id)

(* C22: in every error list validate_manifest_assets returns, the missing-required
   errors precede the per-asset errors, the missing-required errors keep the order
   of format.assets_required, the per-asset errors keep the iteration order of
   manifest.assets, and validating the same manifest against the same format again
   gives the identical list. *)
C22_ErrorOrder ==
  op \in {"validate", "revalidate"} /\ validation.kind = "return" =>
    /\ \A i, j \in 1..Len(validation.errors) :
         IsMissingError(validation.errors[j]) /\ IsAssetError(validation.errors[i]) => j < i
    /\ ErrorIds(SelectSeq(validation.errors, IsMissingError))
         = OrderedBy(DeclaredIds, ErrorIds(SelectSeq(validation.errors, IsMissingError)))
    /\ ErrorIds(SelectSeq(validation.errors, IsAssetError))
         = OrderedBy(AssetKeys, ErrorIds(SelectSeq(validation.errors, IsAssetError)))
    /\ validate_manifest_assets(manifest, format_obj) = validation

(* a returned list with a missing-required error followed by two per-asset errors *)
C22_Witness ==
  /\ op = "validate"
  /\ validation.kind = "return"
  /\ Len(validation.errors) = 3
  /\ IsMissingError(validation.errors[1])
  /\ IsAssetError(validation.errors[2])
  /\ IsAssetError(validation.errors[3])
  /\ validation.errors[2].asset_id # validation.errors[3].asset_id

(* a returned list with two missing-required errors in declaration order *)
C22_TwoMissingReached ==
  /\ op = "validate"
  /\ validation.kind = "return"
  /\ Len(validation.errors) >= 2
  /\ IsMissingError(validation.errors[1])
  /\ IsMissingError(validation.errors[2])

(* ========================= a failed storage upload ===================== *)

(* the last thing the call did was an upload_preview_html that raised *)
UploadFailed ==
  /\ op = "preview_creative"
  /\ request.failing > 0
  /\ calls # <<>>
  /\ calls[Len(calls)] = "upload_preview_html"

(* C23: when the upload of a variant fails during preview_creative, the call returns
   an error response whose error is not "Asset validation failed" and which carries
   no validation errors and no preview; a request one of whose uploads is to fail
   never gets a success response. *)
C23_UploadFailureReported ==
  /\ UploadFailed =>
       /\ reply.kind = "error"
       /\ reply.error # "Asset validation failed"
       /\ reply.validation_errors = <<>>
       /\ reply.previews = <<>>
  /\ op = "preview_creative" /\ request.failing > 0 => reply.kind # "previews"

(* the second upload of a request failed after the first one was made *)
C23_Witness ==
  /\ UploadFailed
  /\ request.failing = 2
  /\ Len(uploads) = 1
  /\ reply.error = "Preview generation failed: {e}"

(* the requests rejected for their assets are reached as well *)
C23_AssetValidationReached ==
  /\ op = "preview_creative"
  /\ reply.kind = "error"
  /\ reply.error = "Asset validation failed"
  /\ reply.validation_errors # <<>>

(* ======================= the empty assets mapping ====================== *)

(* manifest.assets is a mapping *)
AssetsIsMapping == isinstance_dict(manifest) /\ has_key(manifest, "assets") /\ isinstance_dict(get(manifest, "assets"))

(* the asset ids of the required requirements of the format, in declaration order *)
RequiredIds == IF IsNone(format_obj) THEN <<>> ELSE ErrorIds(SelectSeq(format_obj[1].assets_required, LAMBDA r : r.required))

(* C26: a manifest whose assets field is a mapping, the empty one included, gets no
   structural error from validate_manifest_assets; for the empty mapping the
   returned list is one missing-required error per required asset of the format,
   the empty list when the format requires nothing. *)
C26_MappingPassesStructure ==
  op = "validate" /\ AssetsIsMapping /\ validation.kind = "return" =>
    /\ \A i \in 1..Len(validation.errors) : validation.errors[i] \notin StructuralErrors
    /\ Len(get(manifest, "assets").v) = 0 =>
         /\ \A i \in 1..Len(validation.errors) : IsMissingError(validation.errors[i])
         /\ ErrorIds(validation.errors) = RequiredIds

(* ==================== formats satisfiable as declared ================== *)

(* C27: for every format of the registry, the manifest that supplies each required
   asset as a well-formed asset of the declared asset_type validates with zero
   errors under validate_manifest_assets. *)
C27_DeclaredSatisfiable ==
  op = "validate" /\ ~IsNone(format_obj) /\ manifest = DeclaredManifest(format_obj[1])
    => validation = Returned(<<>>)

(* ===================== the length of the error list ==================== *)

(* the required requirements of the format whose asset_id is not a key of assets *)
AbsentRequired ==
  IF IsNone(format_obj) THEN {}
  ELSE {r \in 1..Len(format_obj[1].assets_required) :
          /\ format_obj[1].assets_required[r].required
          /\ ~has_key(get(manifest, "assets"), format_obj[1].assets_required[r].asset_id)}

(* the entries of assets that fail their type validator *)
FailingAssets ==
  {i \in 1..Len(get(manifest, "assets").v) :
     validate_asset(get(manifest, "assets").v[i][2]).kind = "AssetValidationError"}

(* C30: for a manifest whose assets field is a mapping, the returned error list has
   as many entries as there are required requirements with an absent asset_id plus
   present assets that fail their validator; every present asset, declared by the
   format or not, has at most one entry, and none when it is valid. *)
C30_ErrorCount ==
  op \in {"validate", "revalidate"} /\ AssetsIsMapping /\ validation.kind = "return" =>
    /\ Len(validation.errors) = Cardinality(AbsentRequired) + Cardinality(FailingAssets)
    /\ \A i \in 1..Len(get(manifest, "assets").v) :
         Len(SelectSeq(validation.errors,
               LAMBDA e : IsAssetError(e) /\ e.asset_id = get(manifest, "assets").v[i][1]))
           = IF i \in FailingAssets THEN 1 ELSE 0

(* ==================== storage keys within one request ================== *)

(* the object the bucket holds under the key once the call is over: the body of
   the last upload made under that key *)
Stored(key) == uploads[CHOOSE i \in 1..Len(uploads) : uploads[i].key = key /\ \A j \in 1..Len(uploads) : uploads[j].key = key => j <= i].body

(* C28: in a preview_creative request that succeeds, two different input variants
   are uploaded under different storage keys, and after the call the key of each
   returned preview holds the document generated for that preview's own input. *)
C28_DistinctKeys ==
  op = "preview_creative" /\ reply.kind = "previews" =>
    /\ \A i, j \in 1..Len(uploads) :
         i # j /\ request_inputs(request.inputs)[i] # request_inputs(request.inputs)[j]
           => uploads[i].key # uploads[j].key
    /\ \A i \in 1..Len(uploads) : Stored(uploads[i].key) = uploads[i].body

(* ================= storage after a call that returns an error ========== *)

(* C29: when preview_creative returns an error response, no document of the request
   has been put into storage; the documents in storage after a call are those of
   the previews a success response lists. *)
C29_AllOrNothing ==
  op = "preview_creative" =>
    /\ reply.kind = "error" => uploads = <<>>
    /\ reply.kind = "previews" =>
         [i \in 1..Len(uploads) |-> uploads[i].key]
           = [i \in 1..Len(reply.previews) |-> reply.previews[i].renders[1].preview_url]

(* ================== the list filter_formats returns ==================== *)

(* C25: the list filter_formats returns is never the registry list itself: whatever
   a caller appends to, removes from or reorders in a returned list, the registry
   stays the list built at start-up and every later filter_formats and
   get_format_by_id call returns what it returns on the untouched registry. *)
C25_FreshSequence ==
  /\ registry = STANDARD_FORMATS
  /\ op \in {"filter", "filter_again"} => ~alias
  /\ op = "filter_again" => results = filter_formats(crit)
  /\ op = "lookup_after" => found = get_format_by_id(format_id)

(* ================== calls running side by side ========================= *)

(* what the worker's call returns when it runs alone on the start-up registry *)
RunAlone(worker) ==
  CASE worker.kind = "list_creative_formats" -> filter_formats(worker.args)
    [] worker.kind = "validate_manifest_assets" -> validate_manifest_assets(worker.args.manifest, worker.args.format_obj)
    [] worker.kind = "preview_creative" -> preview_creative(worker.args.format_id, worker.args.creative_manifest, worker.args.inputs, uuid4(worker.call), 0).response

(* C24: under every interleaving of the steps of list_creative_formats,
   validate_manifest_assets and preview_creative calls run by the workers, the
   registry is the one built at start-up in every reachable state, and each call
   returns what it returns when run alone: the same formats, the same validation
   errors, the same previews in the same order. *)
C24_Isolation ==
  /\ registry = STANDARD_FORMATS
  /\ \A w \in Workers : workers[w].pc = "done" => workers[w].result = RunAlone(workers[w])

(* a preview_creative call has returned its three previews while a
   list_creative_formats call of the other worker, started before the uploads
   ended, is between its filtering and its response *)
C24_Witness ==
  \E w, v \in Workers :
    /\ workers[w].kind = "preview_creative" /\ workers[w].pc = "done"
    /\ workers[w].result.kind = "previews" /\ Len(workers[w].result.previews) = 3
    /\ workers[v].kind = "list_creative_formats" /\ workers[v].pc = "respond"
    /\ Len(workers[v].acc) = Len(STANDARD_FORMATS)
    /\ Cardinality(storage) = 3

(* two preview_creative calls are in their upload loops at once, each with one
   document in the bucket *)
C24_UploadsInterleaved ==
  \E w, v \in Workers :
    /\ w # v
    /\ workers[w].pc = "upload" /\ Len(workers[w].acc.previews) = 1
    /\ workers[v].pc = "upload" /\ Len(workers[v].acc.previews) = 1
    /\ Cardinality(storage) = 2
=============================================================================
